---- MODULE Spec2Model ----
(***************************************************************************)
(* Session/Token Manager of the attendance console (src/services/auth.ts). *)
(*                                                                         *)
(* State: the three localStorage records, the clock, and one record per    *)
(* logical task (a promise chain started by the UI or the router).  A step *)
(* is one run-to-completion segment of JavaScript: it starts at a call or  *)
(* at the arrival of a network result and runs, through every resolved     *)
(* await, until the task awaits the network again or its call completes.   *)
(* The gateway is the environment: its statuses, bodies and rejections are *)
(* chosen with \E.                                                         *)
(***************************************************************************)
EXTENDS Integers, Sequences, FiniteSets, TLC

VARIABLES storage, now, issued, apiBase, task, form, sent, calc

vars == <<storage, now, issued, apiBase, task, form, sent, calc>>

\* the state of the rule editor and of the function under evaluation
views == <<form, sent, calc>>

(* ------------------------------ bounds -------------------------------- *)

\* number of sessions the gateway issues during one run
MaxIssued == 2

\* the logical tasks: the claims about racing calls concern two of them
Tasks == {1, 2}

\* days in the list of a block
MaxDays == 3

\* entries in a day list of the gateway
MaxEntries == 3

\* the events of the user in a run of the rule editor
MaxEvents == 3

(* --------------------------- optional values --------------------------- *)

\* undefined / null
None == <<>>

Some(x) == <<x>>

(* ------------------------------ tokens -------------------------------- *)

\* The middle segment of an access token, by how decodeJwt can fare on it:
\*   nodot      the token holds no "." (split gives no second element)
\*   empty      the second segment is the empty string
\*   notbase64  atob throws on it
\*   notjson    atob succeeds, JSON.parse throws
\*   json       a JSON object, with or without an exp claim (seconds)
Seg(enc, exp) == [enc |-> enc, exp |-> exp]

ExpClaims == {0, 20, 21}

Segments ==
    {Seg(e, None) : e \in {"nodot", "empty", "notbase64", "notjson", "json"}}
        \cup {Seg("json", Some(x)) : x \in ExpClaims}

\* the segments the gateway uses while several tasks race
RaceSegments == {Seg("json", None), Seg("json", Some(20))}

\* token_type of a login/refresh body: absent, or a string
TokenTypes == {None, Some("bearer"), Some("MAC")}

AccessToken(gen, seg) == [gen |-> gen, seg |-> seg]

\* body of a 2xx login/refresh answer, in the shape the gateway documents:
\* user_id, access_token and a non-empty refresh_token always, token_type
\* optionally; gen tells the issued sessions apart
Body(gen, seg, tt) ==
    [user_id |-> "u", access_token |-> AccessToken(gen, seg),
     refresh_token |-> gen, token_type |-> tt]

\* String.prototype.toLowerCase on the token types in use
toLowerCase(s) ==
    CASE s = "bearer" -> "bearer"
      [] s = "Bearer" -> "bearer"
      [] s = "MAC" -> "mac"
      [] OTHER -> s

normalizeTokenType(tokenType) ==
    IF tokenType = None THEN "Bearer"
    ELSE IF toLowerCase(tokenType[1]) = "bearer" THEN "Bearer"
    ELSE tokenType[1]

\* the parsed payload object, or None for null
decodeJwt(token) ==
    IF token.seg.enc \in {"nodot", "empty"} THEN None
    ELSE IF token.seg.enc \in {"notbase64", "notjson"} THEN None
    ELSE Some([exp |-> token.seg.exp])

calculateExpiry(accessToken) ==
    LET parsed == decodeJwt(accessToken) IN
    IF parsed = None THEN None
    ELSE IF parsed[1].exp = None THEN None
    ELSE IF parsed[1].exp[1] = 0 THEN None
    ELSE Some(parsed[1].exp[1] * 1000)

\* mutant: the 15-second safety margin is left out
tokenIsExpired_nomargin(tokens, t) ==
    IF tokens = None THEN FALSE
    ELSE IF tokens[1].expiresAt = None THEN FALSE
    ELSE IF tokens[1].expiresAt[1] = 0 THEN FALSE
    ELSE t >= tokens[1].expiresAt[1]

\* tokens is an optional session
tokenIsExpired(tokens, t) ==
    IF tokens = None THEN FALSE
    ELSE IF tokens[1].expiresAt = None THEN FALSE
    ELSE IF tokens[1].expiresAt[1] = 0 THEN FALSE
    ELSE t >= tokens[1].expiresAt[1] - 15000

parseTokens(payload) ==
    [userId |-> payload.user_id,
     accessToken |-> payload.access_token,
     refreshToken |-> payload.refresh_token,
     tokenType |-> normalizeTokenType(payload.token_type),
     expiresAt |-> calculateExpiry(payload.access_token)]

(* ------------------------------ storage ------------------------------- *)

Absent == [kind |-> "absent"]

Corrupt == [kind |-> "corrupt"]

\* JSON.stringify of a session (an unset expiresAt is left out, and comes
\* back unset)
JsonStringify(tokens) == [kind |-> "json", value |-> tokens]

EmptyStorage == [raw |-> Absent, authToken |-> None, refreshToken |-> None]

\* mutant: only the session record is written
persistTokens_session(st, tokens) ==
    [raw |-> JsonStringify(tokens),
     authToken |-> st.authToken,
     refreshToken |-> st.refreshToken]

\* 30-34: the session record and the two flat records, written together
persistTokens(st, tokens) ==
    [raw |-> JsonStringify(tokens),
     authToken |-> Some(tokens.accessToken),
     refreshToken |-> Some(tokens.refreshToken)]

clearTokens(st) == EmptyStorage

\* JSON.parse of a stored record that decodes
JsonParse(raw) == raw.value

\* mutant: an undecodable record is reported as null but left in place
getStoredTokens_keep(st) ==
    IF st.raw.kind = "absent"
        THEN [value |-> None, storage |-> st, caught |-> FALSE]
    ELSE IF st.raw.kind = "json"
        THEN [value |-> Some(JsonParse(st.raw)), storage |-> st,
              caught |-> FALSE]
    ELSE [value |-> None, storage |-> st, caught |-> TRUE]

\* [value: the optional session returned, storage: the storage afterwards,
\*  caught: JSON.parse threw and the catch branch ran]
getStoredTokens(st) ==
    IF st.raw.kind = "absent"
        THEN [value |-> None, storage |-> st, caught |-> FALSE]
    ELSE IF st.raw.kind = "json"
        THEN [value |-> Some(JsonParse(st.raw)), storage |-> st,
              caught |-> FALSE]
    ELSE [value |-> None, storage |-> clearTokens(st), caught |-> TRUE]

(* ------------------------------ strings ------------------------------- *)

\* A string the code takes apart (a time, a phone number, a timezone label,
\* an address) is the sequence of its characters; day names, which the code
\* only compares and looks up, are atomic.
Digits == <<"0", "1", "2", "3", "4", "5", "6", "7", "8", "9">>

\* \d
IsDigit(c) == \E i \in 1..10 : Digits[i] = c

DigitValue(c) == (CHOOSE i \in 1..10 : Digits[i] = c) - 1

RECURSIVE trimStart(_)
trimStart(s) ==
    IF s # <<>> /\ Head(s) = " " THEN trimStart(Tail(s)) ELSE s

RECURSIVE trimEnd(_)
trimEnd(s) ==
    IF s # <<>> /\ s[Len(s)] = " "
        THEN trimEnd(SubSeq(s, 1, Len(s) - 1))
    ELSE s

\* String.prototype.trim
trim(s) == trimEnd(trimStart(s))

\* String.prototype.startsWith
startsWith(s, prefix) ==
    Len(s) >= Len(prefix) /\ SubSeq(s, 1, Len(prefix)) = prefix

\* String.prototype.slice(n)
slice(s, n) == SubSeq(s, n + 1, Len(s))

\* the value of a run of decimal digits
RECURSIVE DecimalValue(_)
DecimalValue(s) ==
    IF s = <<>> THEN 0
    ELSE 10 * DecimalValue(SubSeq(s, 1, Len(s) - 1)) + DigitValue(s[Len(s)])

\* Number(s) of a string made of decimal digits and surrounding blanks
Number(s) == DecimalValue(trim(s))

\* String.prototype.split(":")
RECURSIVE split(_)
split(s) ==
    IF \A i \in 1..Len(s) : s[i] # ":" THEN <<s>>
    ELSE LET i == CHOOSE k \in 1..Len(s) :
                      s[k] = ":" /\ \A j \in 1..(k - 1) : s[j] # ":"
         IN  <<SubSeq(s, 1, i - 1)>> \o split(SubSeq(s, i + 1, Len(s)))

\* n.toString().padStart(2, "0") for 0 <= n <= 99
padStart2(n) ==
    IF n < 10 THEN <<"0", Digits[n + 1]>>
    ELSE <<Digits[(n \div 10) + 1], Digits[(n % 10) + 1]>>

\* the % of JavaScript: the remainder takes the sign of the dividend
Rem(a, n) == IF a >= 0 THEN a % n ELSE 0 - ((0 - a) % n)

(* ------------------------- times and offsets -------------------------- *)

\* ([01]\d|2[0-3]):([0-5]\d) at the start of s
HourMinute(s) ==
    /\ Len(s) >= 5
    /\ \/ s[1] \in {"0", "1"} /\ IsDigit(s[2])
       \/ s[1] = "2" /\ s[2] \in {"0", "1", "2", "3"}
    /\ s[3] = ":"
    /\ s[4] \in {"0", "1", "2", "3", "4", "5"}
    /\ IsDigit(s[5])

\* mutant: the value is tested as it is, blanks included
isValidTime_untrimmed(value) == Len(value) = 5 /\ HourMinute(value)

\* utils.ts 3-4
isValidTime(value) ==
    LET t == trim(value) IN Len(t) = 5 /\ HourMinute(t)

\* mutant: the minutes of the offset are added instead of subtracted
toUtcTime_plus(time, offsetMinutes) ==
    IF ~isValidTime(time) THEN None
    ELSE LET parts == split(time)
             hour == Number(parts[1])
             minute == Number(parts[2])
             localTotal == hour * 60 + minute
             utcTotal == localTotal + offsetMinutes
             normalized == Rem(Rem(utcTotal, 1440) + 1440, 1440)
             utcHour == normalized \div 60
             utcMinute == Rem(normalized, 60)
         IN  Some(padStart2(utcHour) \o <<":">> \o padStart2(utcMinute))

\* utils.ts 19-32: the time as a string, or None for null
toUtcTime(time, offsetMinutes) ==
    IF ~isValidTime(time) THEN None
    ELSE LET parts == split(time)
             hour == Number(parts[1])
             minute == Number(parts[2])
             localTotal == hour * 60 + minute
             utcTotal == localTotal - offsetMinutes
             normalized == Rem(Rem(utcTotal, 1440) + 1440, 1440)
             utcHour == normalized \div 60
             utcMinute == Rem(normalized, 60)
         IN  Some(padStart2(utcHour) \o <<":">> \o padStart2(utcMinute))

\* UTC([+-]\d{2}):(\d{2}) at position i of s
OffsetAt(s, i) ==
    /\ i + 8 <= Len(s)
    /\ SubSeq(s, i, i + 2) = <<"U", "T", "C">>
    /\ s[i + 3] \in {"+", "-"}
    /\ IsDigit(s[i + 4]) /\ IsDigit(s[i + 5])
    /\ s[i + 6] = ":"
    /\ IsDigit(s[i + 7]) /\ IsDigit(s[i + 8])

\* mutant: the minutes are added whatever the sign
extractOffsetMinutes_unsigned(timezone) ==
    IF timezone = <<>> THEN 0
    ELSE IF \A i \in 1..Len(timezone) : ~OffsetAt(timezone, i) THEN 0
    ELSE LET i == CHOOSE k \in 1..Len(timezone) :
                      /\ OffsetAt(timezone, k)
                      /\ \A j \in 1..(k - 1) : ~OffsetAt(timezone, j)
             negative == timezone[i + 3] = "-"
             magnitude == DecimalValue(SubSeq(timezone, i + 4, i + 5))
             hours == IF negative THEN 0 - magnitude ELSE magnitude
             minutes == DecimalValue(SubSeq(timezone, i + 7, i + 8))
         IN  hours * 60 + minutes

\* utils.ts 6-17; an undefined timezone reads as the empty string
extractOffsetMinutes(timezone) ==
    IF timezone = <<>> THEN 0
    ELSE IF \A i \in 1..Len(timezone) : ~OffsetAt(timezone, i) THEN 0
    ELSE LET i == CHOOSE k \in 1..Len(timezone) :
                      /\ OffsetAt(timezone, k)
                      /\ \A j \in 1..(k - 1) : ~OffsetAt(timezone, j)
             negative == timezone[i + 3] = "-"
             magnitude == DecimalValue(SubSeq(timezone, i + 4, i + 5))
             hours == IF negative THEN 0 - magnitude ELSE magnitude
             minutes == DecimalValue(SubSeq(timezone, i + 7, i + 8))
             sign == IF negative THEN 0 - 1 ELSE 1
         IN  hours * 60 + sign * minutes

(* -------------------------------- days -------------------------------- *)

\* constants.ts 3
DAYS == <<"Lun", "Mar", "Mie", "Jue", "Vie", "Sab", "Dom">>

\* the ISO weekday names, Monday first
IsoDays ==
    <<"monday", "tuesday", "wednesday", "thursday", "friday", "saturday",
      "sunday">>

\* Array.prototype.indexOf: the position from 0, or -1
indexOf(xs, x) ==
    IF \E i \in 1..Len(xs) : xs[i] = x
        THEN (CHOOSE i \in 1..Len(xs) :
                 xs[i] = x /\ \A j \in 1..(i - 1) : xs[j] # x) - 1
    ELSE 0 - 1

\* the members an object literal inherits from Object.prototype, by name,
\* or None for a name it has not.  A member is a function, or for __proto__
\* the prototype itself, and no string: each is written as the text that
\* prints it, one text for each member.
ObjectPrototype(name) ==
    IF name = "__proto__" THEN Some("[Object: null prototype] {}")
    ELSE IF name = "constructor" THEN Some("[Function: Object]")
    ELSE IF name = "__defineGetter__"
        THEN Some("[Function: __defineGetter__]")
    ELSE IF name = "__defineSetter__"
        THEN Some("[Function: __defineSetter__]")
    ELSE IF name = "__lookupGetter__"
        THEN Some("[Function: __lookupGetter__]")
    ELSE IF name = "__lookupSetter__"
        THEN Some("[Function: __lookupSetter__]")
    ELSE IF name = "hasOwnProperty" THEN Some("[Function: hasOwnProperty]")
    ELSE IF name = "isPrototypeOf" THEN Some("[Function: isPrototypeOf]")
    ELSE IF name = "propertyIsEnumerable"
        THEN Some("[Function: propertyIsEnumerable]")
    ELSE IF name = "toLocaleString" THEN Some("[Function: toLocaleString]")
    ELSE IF name = "toString" THEN Some("[Function: toString]")
    ELSE IF name = "valueOf" THEN Some("[Function: valueOf]")
    ELSE None

\* mutant: the week of the ISO names starts on Sunday
ISO_DAY_MAP_sunday(day) ==
    IF indexOf(DAYS, day) >= 0
        THEN Some(IsoDays[((indexOf(DAYS, day) + 6) % 7) + 1])
    ELSE ObjectPrototype(day)

\* ISO_DAY_MAP[day] (AutomationScheduler.tsx 37-45): the ISO name of a
\* weekday key, else the inherited member, else None for undefined
ISO_DAY_MAP(day) ==
    IF indexOf(DAYS, day) >= 0 THEN Some(IsoDays[indexOf(DAYS, day) + 1])
    ELSE ObjectPrototype(day)

\* ISO_TO_DAY_KEY[day] (part_004 128-136): the weekday key of an ISO name,
\* else the inherited member, else None for undefined
ISO_TO_DAY_KEY(day) ==
    IF indexOf(IsoDays, day) >= 0 THEN Some(DAYS[indexOf(IsoDays, day) + 1])
    ELSE ObjectPrototype(day)

\* day.trim() === "" on the day values in use
Blank(day) == day \in {"", " "}

\* Array.from(new Set(xs)): the first occurrence of each value, in order
RECURSIVE unique(_)
unique(xs) ==
    IF xs = <<>> THEN <<>>
    ELSE LET init == unique(SubSeq(xs, 1, Len(xs) - 1))
             last == xs[Len(xs)]
         IN  IF \E i \in 1..Len(init) : init[i] = last THEN init
             ELSE Append(init, last)

\* a day entry that is a non-blank string
IsDayString(d) == d # None /\ ~Blank(d[1])

\* part_004 162-168; days is None (not an array) or Some list whose entries
\* are None (null) or Some day string
normalizeDays(days) ==
    IF days = None THEN <<>>
    ELSE LET kept == SelectSeq(days[1], IsDayString)
             mapped == [i \in 1..Len(kept) |->
                           IF ISO_TO_DAY_KEY(kept[i][1]) # None
                               THEN ISO_TO_DAY_KEY(kept[i][1])[1]
                           ELSE kept[i][1]]
         IN  unique(mapped)

(* ------------------------ inbound rule parsing ------------------------ *)

\* part_004 138-151; value is None (null, undefined) or Some string
normalizePhoneNumber(value) ==
    IF value = None THEN None
    ELSE LET trimmed == trim(value[1])
             digits == SelectSeq(trimmed, IsDigit)
             withoutCountry ==
                 IF startsWith(digits, <<"5", "1">>) THEN slice(digits, 2)
                 ELSE digits
         IN  IF trimmed = <<>> THEN None
             ELSE IF digits = <<>> THEN None
             ELSE IF Len(withoutCountry) = 8 \/ Len(withoutCountry) = 9
                 THEN Some(<<"+", "5", "1">> \o withoutCountry)
             ELSE Some(trimmed)

\* ^([01]\d|2[0-3]):([0-5]\d)(?::[0-5]\d)?$
HourMinuteSecond(s) ==
    /\ HourMinute(s)
    /\ \/ Len(s) = 5
       \/ /\ Len(s) = 8
          /\ s[6] = ":"
          /\ s[7] \in {"0", "1", "2", "3", "4", "5"}
          /\ IsDigit(s[8])

\* part_004 153-160; value is None (not a string) or Some string
normalizeTime(value) ==
    IF value = None THEN None
    ELSE LET trimmed == trim(value[1]) IN
         IF trimmed = <<>> THEN None
         ELSE IF ~HourMinuteSecond(trimmed) THEN Some(trimmed)
         ELSE Some(SubSeq(trimmed, 1, 5))

\* a ?? b
Coalesce(a, b) == IF a # None THEN a ELSE b

\* a schedule entry of the gateway's answer: every field may be missing
RawScheduleEntry(enabled, localTime, local_time, utcTime, utc_time, days) ==
    [enabled |-> enabled, localTime |-> localTime, local_time |-> local_time,
     utcTime |-> utcTime, utc_time |-> utc_time, days |-> days]

\* {}
EmptyEntry == RawScheduleEntry(None, None, None, None, None, None)

EmptyLocation ==
    [address |-> None, latitude |-> None, longitude |-> None,
     radiusMeters |-> None, radius_meters |-> None]

\* part_004 176-189, the block built from one raw schedule entry
parseEntry(entry) ==
    [habilitado |-> Coalesce(entry.enabled, Some(FALSE))[1],
     hora_local |-> normalizeTime(Coalesce(entry.localTime, entry.local_time)),
     hora_utc |-> normalizeTime(Coalesce(entry.utcTime, entry.utc_time)),
     dias |-> normalizeDays(entry.days)]

\* mutant: the snake_case variant is preferred to the camelCase one
_parseRule_snake(data) ==
    LET entry == IF data.schedule = None THEN EmptyEntry
                 ELSE Coalesce(data.schedule[1].entry, Some(EmptyEntry))[1]
        exit == IF data.schedule = None THEN EmptyEntry
                ELSE Coalesce(data.schedule[1].exit, Some(EmptyEntry))[1]
        location == Coalesce(data.location, Some(EmptyLocation))[1]
    IN  [activo |-> Coalesce(Coalesce(data.is_active, data.isActive),
                             Some(FALSE))[1],
         ventana_aleatoria_minutos |->
             Coalesce(data.random_window_minutes, data.randomWindowMinutes),
         telefono |->
             normalizePhoneNumber(Coalesce(data.phone_number,
                                           data.phoneNumber)),
         entrada |-> parseEntry(entry),
         salida |-> parseEntry(exit),
         ubicacion |->
             [direccion |-> IF location.address # None
                                THEN Some(trim(location.address[1]))
                            ELSE None,
              lat |-> location.latitude,
              lng |-> location.longitude,
              radio_metros |-> Coalesce(location.radius_meters,
                                        location.radiusMeters)],
         zona_horaria |-> data.timezone]

\* part_004 170-221; data is the decoded body of the gateway's answer
_parseRule(data) ==
    LET entry == IF data.schedule = None THEN EmptyEntry
                 ELSE Coalesce(data.schedule[1].entry, Some(EmptyEntry))[1]
        exit == IF data.schedule = None THEN EmptyEntry
                ELSE Coalesce(data.schedule[1].exit, Some(EmptyEntry))[1]
        location == Coalesce(data.location, Some(EmptyLocation))[1]
    IN  [activo |-> Coalesce(Coalesce(data.isActive, data.is_active),
                             Some(FALSE))[1],
         ventana_aleatoria_minutos |->
             Coalesce(data.randomWindowMinutes, data.random_window_minutes),
         telefono |->
             normalizePhoneNumber(Coalesce(data.phoneNumber,
                                           data.phone_number)),
         entrada |-> parseEntry(entry),
         salida |-> parseEntry(exit),
         ubicacion |->
             [direccion |-> IF location.address # None
                                THEN Some(trim(location.address[1]))
                            ELSE None,
              lat |-> location.latitude,
              lng |-> location.longitude,
              radio_metros |-> Coalesce(location.radiusMeters,
                                        location.radius_meters)],
         zona_horaria |-> data.timezone]

(* --------------------------- the rule editor -------------------------- *)

\* AutomationBlock: hora_local a string, hora_utc an optional string, dias a
\* list of day values
Block(habilitado, hora_local, hora_utc, dias) ==
    [habilitado |-> habilitado, hora_local |-> hora_local,
     hora_utc |-> hora_utc, dias |-> dias]

\* the elements of dias whose DAYS.indexOf is k, k + 1, ..., 6 in that order
RECURSIVE sortFrom(_, _)
sortFrom(dias, k) ==
    IF k > 6 THEN <<>>
    ELSE SelectSeq(dias, LAMBDA d : indexOf(DAYS, d) = k)
             \o sortFrom(dias, k + 1)

\* [...dias].sort((a, b) => DAYS.indexOf(a) - DAYS.indexOf(b)), a stable sort
sortDays(dias) == sortFrom(dias, 0 - 1)

\* AutomationScheduler.tsx 610-615
toggleDay(current, day) ==
    IF \E i \in 1..Len(current) : current[i] = day
        THEN SelectSeq(current, LAMBDA d : d # day)
    ELSE sortDays(Append(current, day))

\* mutant: a block that is not enabled keeps the UTC time it had
normalizeBlock_stale(block, offsetMinutes) ==
    LET horaLocal == IF block.habilitado THEN trim(block.hora_local) ELSE <<>>
        dias == IF block.habilitado THEN sortDays(block.dias) ELSE <<>>
    IN  [habilitado |-> block.habilitado,
         hora_local |-> horaLocal,
         dias |-> dias,
         hora_utc |-> IF ~block.habilitado THEN block.hora_utc
                      ELSE IF horaLocal # <<>>
                          THEN toUtcTime(horaLocal, offsetMinutes)
                      ELSE None]

\* mutant: an enabled block whose local time gives no UTC time keeps the
\* UTC time it had
normalizeBlock_stored(block, offsetMinutes) ==
    LET horaLocal == IF block.habilitado THEN trim(block.hora_local) ELSE <<>>
        dias == IF block.habilitado THEN sortDays(block.dias) ELSE <<>>
    IN  [habilitado |-> block.habilitado,
         hora_local |-> horaLocal,
         dias |-> dias,
         hora_utc |-> IF ~block.habilitado THEN None
                      ELSE IF isValidTime(horaLocal)
                          THEN toUtcTime(horaLocal, offsetMinutes)
                      ELSE block.hora_utc]

\* AutomationScheduler.tsx 660-677
normalizeBlock(block, offsetMinutes) ==
    LET horaLocal == IF block.habilitado THEN trim(block.hora_local) ELSE <<>>
        dias == IF block.habilitado THEN sortDays(block.dias) ELSE <<>>
    IN  [habilitado |-> block.habilitado,
         hora_local |-> horaLocal,
         dias |-> dias,
         hora_utc |-> IF block.habilitado /\ horaLocal # <<>>
                          THEN toUtcTime(horaLocal, offsetMinutes)
                      ELSE None]

\* AutomationScheduler.tsx 679-691; an entry of days is the ISO name, or None
\* where ISO_DAY_MAP has none
toPersistedBlock(normalized) ==
    [enabled |-> normalized.habilitado,
     localTime |-> IF normalized.habilitado /\ normalized.hora_local # <<>>
                       THEN Some(normalized.hora_local)
                   ELSE None,
     utcTime |-> normalized.hora_utc,
     days |-> IF normalized.habilitado
                  THEN [i \in 1..Len(normalized.dias) |->
                           ISO_DAY_MAP(normalized.dias[i])]
              ELSE <<>>]

\* AutomationScheduler.tsx 220-223
toMinutes(value) ==
    LET parts == split(value) IN Number(parts[1]) * 60 + Number(parts[2])

\* the validate rules of the form (AutomationScheduler.tsx 239-398), TRUE
\* where the rule returns true

\* 246-247, 257-258
validateCoordinate(value) == value # None

\* 268-276
validateRadius(value) == value # None /\ value[1] > 0

\* 286-292
validateRandomWindow(value) == value = None \/ value[1] >= 0

\* 302-315; libphonenumber-js is outside the repository: its verdict on a
\* number that is not blank is the input valid
validatePhoneNumber(value, valid) == trim(value) = <<>> \/ valid

\* 329-332
validateTimezone(value) == value # <<>> /\ Len(trim(value)) > 0

\* 346-355
validateEntryTime(value, entry) ==
    \/ ~entry.habilitado
    \/ /\ trim(value) # <<>>
       /\ isValidTime(value)

\* mutant: the local time of an enabled exit block is not looked at
validateExitTime_any(value, entry, exit) == TRUE

\* 376-396
validateExitTime(value, entry, exit) ==
    \/ ~exit.habilitado
    \/ /\ trim(value) # <<>>
       /\ isValidTime(value)
       /\ ~(/\ entry.habilitado
            /\ entry.hora_local # <<>>
            /\ isValidTime(entry.hora_local)
            /\ \E i \in 1..Len(entry.dias), j \in 1..Len(exit.dias) :
                   entry.dias[i] = exit.dias[j]
            /\ toMinutes(value) <= toMinutes(entry.hora_local))

\* handleSubmit runs every rule on the present values
validate(values, valid) ==
    /\ validateCoordinate(values.location.lat)
    /\ validateCoordinate(values.location.lng)
    /\ validateRadius(values.location.radius)
    /\ validateRandomWindow(values.randomWindowMinutes)
    /\ validatePhoneNumber(values.phoneNumber, valid)
    /\ validateTimezone(values.timezone)
    /\ validateEntryTime(values.entry.hora_local, values.entry)
    /\ validateExitTime(values.exit.hora_local, values.entry, values.exit)

\* 76-80
FALLBACK_COUNTRY == [id |-> "PE", dialCode |-> <<"5", "1">>]

\* 48-73, 82: the countries of libphonenumber-js that have a calling code,
\* in the order of their Spanish names; of these the United States (Estados
\* Unidos) and Peru are here
PHONE_COUNTRIES ==
    <<[id |-> "US", dialCode |-> <<"1">>],
      [id |-> "PE", dialCode |-> <<"5", "1">>]>>

\* 83-84
PHONE_COUNTRIES_WITH_FALLBACK ==
    IF Len(PHONE_COUNTRIES) > 0 THEN PHONE_COUNTRIES
    ELSE <<FALLBACK_COUNTRY>>

\* 85-87
DEFAULT_PHONE_COUNTRY ==
    LET found == SelectSeq(PHONE_COUNTRIES_WITH_FALLBACK,
                           LAMBDA country : country.id = "PE")
    IN  IF found # <<>> THEN found[1] ELSE PHONE_COUNTRIES_WITH_FALLBACK[1]

\* 112-114: the country of the list with this id, None where there is none
findPhoneCountry(id) ==
    LET found == SelectSeq(PHONE_COUNTRIES_WITH_FALLBACK,
                           LAMBDA country : country.id = id)
    IN  IF found # <<>> THEN Some(found[1]) ELSE None

\* 116: value.replace(/\D/g, "")
normalizePhoneDigits(value) == SelectSeq(value, IsDigit)

\* 697-709; parsed is what parsePhoneNumberFromString(digits, country.id)
\* of libphonenumber-js gives as format("E.164"): Some(text), or None where
\* it returns undefined or throws
normalizedPhoneNumber(values, parsed) ==
    LET trimmed == trim(values.phoneNumber)
        digits == normalizePhoneDigits(trimmed)
        country == Coalesce(findPhoneCountry(values.phoneCountry),
                            Some(DEFAULT_PHONE_COUNTRY))[1]
    IN  IF trimmed = <<>> THEN None
        ELSE IF parsed # None THEN parsed
        ELSE Some(<<"+">> \o country.dialCode \o digits)

\* mutant: the address is emitted as typed
persistPayload_untrimmed(values, parsed) ==
    LET offsetMinutes == extractOffsetMinutes(values.timezone) IN
    [isActive |-> values.isActive,
     randomWindowMinutes |-> values.randomWindowMinutes,
     phoneNumber |-> normalizedPhoneNumber(values, parsed),
     schedule |->
         [entry |-> toPersistedBlock(normalizeBlock(values.entry,
                                                    offsetMinutes)),
          exit |-> toPersistedBlock(normalizeBlock(values.exit,
                                                   offsetMinutes))],
     location |->
         [address |-> values.location.address,
          latitude |-> values.location.lat,
          longitude |-> values.location.lng,
          radiusMeters |-> values.location.radius],
     timezone |-> values.timezone]

\* 694-726: the payload submitForm hands to onSave
persistPayload(values, parsed) ==
    LET offsetMinutes == extractOffsetMinutes(values.timezone) IN
    [isActive |-> values.isActive,
     randomWindowMinutes |-> values.randomWindowMinutes,
     phoneNumber |-> normalizedPhoneNumber(values, parsed),
     schedule |->
         [entry |-> toPersistedBlock(normalizeBlock(values.entry,
                                                    offsetMinutes)),
          exit |-> toPersistedBlock(normalizeBlock(values.exit,
                                                   offsetMinutes))],
     location |->
         [address |-> trim(values.location.address),
          latitude |-> values.location.lat,
          longitude |-> values.location.lng,
          radiusMeters |-> values.location.radius],
     timezone |-> values.timezone]

\* 740-761: the rule kept as the snapshot after a save
savedRule(values, parsed) ==
    LET offsetMinutes == extractOffsetMinutes(values.timezone)
        entry == normalizeBlock(values.entry, offsetMinutes)
        exit == normalizeBlock(values.exit, offsetMinutes)
    IN  [activo |-> values.isActive,
         ventana_aleatoria_minutos |-> values.randomWindowMinutes,
         telefono |-> normalizedPhoneNumber(values, parsed),
         entrada |-> [habilitado |-> entry.habilitado,
                      hora_local |-> Some(entry.hora_local),
                      hora_utc |-> None,
                      dias |-> entry.dias],
         salida |-> [habilitado |-> exit.habilitado,
                     hora_local |-> Some(exit.hora_local),
                     hora_utc |-> None,
                     dias |-> exit.dias],
         ubicacion |-> [direccion |-> Some(trim(values.location.address)),
                        lat |-> values.location.lat,
                        lng |-> values.location.lng,
                        radio_metros |-> values.location.radius],
         zona_horaria |-> Some(values.timezone)]

\* 118-164; parsed is what parsePhoneNumberFromString(rawPhone) of
\* libphonenumber-js gives: Some of its country (None where it has none) and
\* its nationalNumber, or None where it returns undefined or throws
toFormValues(rule, parsed) ==
    LET rawPhone == Coalesce(rule.telefono, Some(<<>>))[1]
        digits == normalizePhoneDigits(rawPhone)
        matchedCountry ==
            IF /\ startsWith(rawPhone, <<"+">>) /\ digits # <<>>
               /\ parsed # None /\ parsed[1].country # None
                THEN findPhoneCountry(parsed[1].country[1])
            ELSE None
        country == IF matchedCountry # None THEN matchedCountry[1]
                   ELSE DEFAULT_PHONE_COUNTRY
        number == IF matchedCountry # None THEN parsed[1].nationalNumber
                  ELSE digits
    IN  [isActive |-> rule.activo,
         randomWindowMinutes |-> rule.ventana_aleatoria_minutos,
         phoneCountry |-> country.id,
         phoneNumber |-> number,
         entry |-> Block(rule.entrada.habilitado,
                         Coalesce(rule.entrada.hora_local, Some(<<>>))[1],
                         rule.entrada.hora_utc,
                         rule.entrada.dias),
         exit |-> Block(rule.salida.habilitado,
                        Coalesce(rule.salida.hora_local, Some(<<>>))[1],
                        rule.salida.hora_utc,
                        rule.salida.dias),
         location |-> [address |-> Coalesce(rule.ubicacion.direccion,
                                            Some(<<>>))[1],
                       lat |-> rule.ubicacion.lat,
                       lng |-> rule.ubicacion.lng,
                       radius |-> Coalesce(rule.ubicacion.radio_metros,
                                           Some(100))],
         timezone |-> Coalesce(rule.zona_horaria, Some(<<>>))[1]]

\* the payload as the gateway hands it back: the camelCase shape, the fields
\* that hold null missing
AsRawInput(payload) ==
    LET entryOf(b) ==
            RawScheduleEntry(Some(b.enabled), b.localTime, None, b.utcTime,
                             None, Some(b.days))
    IN  [isActive |-> Some(payload.isActive),
         is_active |-> None,
         randomWindowMinutes |-> payload.randomWindowMinutes,
         random_window_minutes |-> None,
         phoneNumber |-> payload.phoneNumber,
         phone_number |-> None,
         schedule |-> Some([entry |-> Some(entryOf(payload.schedule.entry)),
                            exit |-> Some(entryOf(payload.schedule.exit))]),
         location |-> Some([address |-> Some(payload.location.address),
                            latitude |-> payload.location.latitude,
                            longitude |-> payload.location.longitude,
                            radiusMeters |-> payload.location.radiusMeters,
                            radius_meters |-> None]),
         timezone |-> Some(payload.timezone)]

(* ------------------------------- tasks -------------------------------- *)

\* what a call hands to its caller: a value or a thrown error
\* kind: what is handed over; err, message: the class and the message of a
\* thrown error; status: of a Response; session: of a session; value: of
\* decoded data
Res(kind, err, status, session) ==
    [kind |-> kind, err |-> err, status |-> status, session |-> session,
     message |-> None, value |-> None]

NoRes == Res("none", "", 0, None)

Null == Res("null", "", 0, None)

Void == Res("void", "", 0, None)

Tokens(s) == Res("tokens", "", 0, Some(s))

Response(status) == Res("response", "", status, None)

Throw(err) == Res("throw", err, 0, None)

\* stack: the async functions the task is inside, innermost first
\* pc: the await the innermost function is suspended at
\* tokens, token, refreshed: the locals of the same names
\* nReq, nRefresh: request and refresh fetches issued by the present call
\* first: status of the first response to authorizedFetch (0: none yet)
\* auth: the Authorization header of the last request fetch
\* refresh: how the present call's refreshSession fared ("none": not called,
\*   "pending", "notoken", "non2xx", "ok": 2xx answered, "tokens": persisted,
\*   "rejected": its fetch failed at network level)
\* caught: a getStoredTokens of the present call met an undecodable record
\* response: status of the Response handed to handleJson (0: none)
\* text: the body text handleJson has read
IdleTask ==
    [op |-> "idle", stack |-> <<>>, pc |-> "idle", tokens |-> None,
     token |-> None, refreshed |-> None, nReq |-> 0, nRefresh |-> 0,
     first |-> 0, auth |-> None, refresh |-> "none", caught |-> FALSE,
     response |-> 0, text |-> None, out |-> NoRes]

NewTask(o) == [IdleTask EXCEPT !.op = o, !.pc = "run"]

Push(tk, f) == [tk EXCEPT !.stack = <<f>> \o tk.stack]

Pop(tk) == [tk EXCEPT !.stack = Tail(tk.stack)]

\* a state transformer's result: the task's record and the storage
TS(tk, st) == [task |-> tk, storage |-> st]

\* the Authorization header built from a session
AuthHeader(tokens) ==
    Some([scheme |-> tokens.tokenType, token |-> tokens.accessToken])

Ok(status) == status \in 200..299

(* ----------------- the functions, as state transformers ---------------- *)

RECURSIVE Return(_, _, _)
RECURSIVE ensureAuthTokens_refreshed(_, _, _)
RECURSIVE requireAuthTokens_ensured(_, _, _)
RECURSIVE authorizedFetch_send(_, _, _)
RECURSIVE authorizedFetch_refreshed(_, _, _)
RECURSIVE logout_finally(_, _, _)
RECURSIVE fetchAutomationRule_fetched(_, _, _)
RECURSIVE fetchAutomationRule_handled(_, _, _)
RECURSIVE fetchAvailableTimezones_fetched(_, _, _)
RECURSIVE fetchAvailableTimezones_handled(_, _, _)
RECURSIVE saveAutomationRule_fetched(_, _, _)
RECURSIVE saveAutomationRule_handled(_, _, _)
RECURSIVE markAutomationNow_fetched(_, _, _)
RECURSIVE markAutomationNow_handled(_, _, _)
RECURSIVE fetchAttendanceCredentials_fetched(_, _, _)
RECURSIVE fetchAttendanceCredentials_handled(_, _, _)
RECURSIVE automationLoader_required(_, _, _)

\* The innermost function of tk.stack settles with res: its caller resumes
\* in the same run of microtasks, or the call is complete.
Return(tk, st, res) ==
    LET callee == Head(tk.stack)
        up == Pop(tk)
    IN  IF up.stack = <<>>
            THEN TS([up EXCEPT !.pc = "done", !.out = res], st)
        ELSE LET caller == Head(up.stack) IN
            CASE caller = "ensureAuthTokens" ->
                    ensureAuthTokens_refreshed(up, st, res)
              [] caller = "requireAuthTokens" ->
                    requireAuthTokens_ensured(up, st, res)
              [] caller = "authorizedFetch" /\ callee = "ensureAuthTokens" ->
                    authorizedFetch_send(up, st, res)
              [] caller = "authorizedFetch" /\ callee = "refreshSession" ->
                    authorizedFetch_refreshed(up, st, res)
              [] caller = "logout" ->
                    logout_finally(up, st, res)
              [] caller = "fetchAutomationRule" /\ callee = "authorizedFetch" ->
                    fetchAutomationRule_fetched(up, st, res)
              [] caller = "fetchAutomationRule" /\ callee = "handleJson" ->
                    fetchAutomationRule_handled(up, st, res)
              [] caller = "fetchAvailableTimezones" /\ callee = "authorizedFetch" ->
                    fetchAvailableTimezones_fetched(up, st, res)
              [] caller = "fetchAvailableTimezones" /\ callee = "handleJson" ->
                    fetchAvailableTimezones_handled(up, st, res)
              [] caller = "saveAutomationRule" /\ callee = "authorizedFetch" ->
                    saveAutomationRule_fetched(up, st, res)
              [] caller = "saveAutomationRule" /\ callee = "handleJson" ->
                    saveAutomationRule_handled(up, st, res)
              [] caller = "markAutomationNow" /\ callee = "authorizedFetch" ->
                    markAutomationNow_fetched(up, st, res)
              [] caller = "markAutomationNow" /\ callee = "handleJson" ->
                    markAutomationNow_handled(up, st, res)
              [] caller = "fetchAttendanceCredentials" /\ callee = "authorizedFetch" ->
                    fetchAttendanceCredentials_fetched(up, st, res)
              [] caller = "fetchAttendanceCredentials" /\ callee = "handleJson" ->
                    fetchAttendanceCredentials_handled(up, st, res)
              [] caller = "automationLoader" ->
                    automationLoader_required(up, st, res)

\* refreshSession up to its fetch (auth.ts 105-118)
refreshSession(tk, st, refreshToken) ==
    LET current == getStoredTokens(st)
        tk1 == [Push(tk, "refreshSession")
                  EXCEPT !.caught = @ \/ current.caught]
        token == IF refreshToken # None THEN refreshToken
                 ELSE IF current.value # None
                     THEN Some(current.value[1].refreshToken)
                 ELSE None
    IN  IF token = None
            THEN Return([tk1 EXCEPT !.refresh = "notoken"],
                        current.storage, Null)
        ELSE TS([tk1 EXCEPT !.pc = "rs_fetch", !.token = token,
                            !.nRefresh = @ + 1, !.refresh = "pending"],
                current.storage)

\* mutant: a non-2xx answer returns null without clearing the storage
refreshSession_response_keep(tk, st, status) ==
    IF ~Ok(status)
        THEN Return([tk EXCEPT !.refresh = "non2xx"], st, Null)
    ELSE TS([tk EXCEPT !.pc = "rs_json", !.refresh = "ok"], st)

\* refreshSession from the answer of its fetch (auth.ts 120-125)
refreshSession_response(tk, st, status) ==
    IF ~Ok(status)
        THEN Return([tk EXCEPT !.refresh = "non2xx"], clearTokens(st), Null)
    ELSE TS([tk EXCEPT !.pc = "rs_json", !.refresh = "ok"], st)

\* refreshSession from the decoded body (auth.ts 125-128)
refreshSession_json(tk, st, data) ==
    LET tokens == parseTokens(data) IN
    Return([tk EXCEPT !.refresh = "tokens"], persistTokens(st, tokens),
           Tokens(tokens))

\* ensureAuthTokens up to its refresh (auth.ts 131-147)
ensureAuthTokens(tk, st, t) ==
    LET stored == getStoredTokens(st)
        tk1 == [Push(tk, "ensureAuthTokens")
                  EXCEPT !.caught = @ \/ stored.caught]
    IN  IF stored.value = None
            THEN refreshSession(tk1, stored.storage, None)
        ELSE IF ~tokenIsExpired(stored.value, t)
            THEN Return(tk1, stored.storage, Tokens(stored.value[1]))
        ELSE refreshSession([tk1 EXCEPT !.tokens = stored.value],
                            stored.storage,
                            Some(stored.value[1].refreshToken))

\* mutant: a failed refresh falls back to the expired session
ensureAuthTokens_refreshed_stale(tk, st, res) ==
    IF res.kind = "throw" THEN Return(tk, st, res)
    ELSE IF res.kind = "null" /\ tk.tokens # None
        THEN Return(tk, st, Tokens(tk.tokens[1]))
    ELSE IF res.kind = "null"
        THEN Return(tk, clearTokens(st), Throw("AuthorizationError"))
    ELSE Return(tk, st, res)

\* ensureAuthTokens after either refresh (auth.ts 136-140, 148-153)
ensureAuthTokens_refreshed(tk, st, res) ==
    IF res.kind = "throw" THEN Return(tk, st, res)
    ELSE IF res.kind = "null"
        THEN Return(tk, clearTokens(st), Throw("AuthorizationError"))
    ELSE Return(tk, st, res)

requireAuthTokens(tk, st, t) ==
    ensureAuthTokens(Push(tk, "requireAuthTokens"), st, t)

\* requireAuthTokens after ensureAuthTokens (auth.ts 166-171)
requireAuthTokens_ensured(tk, st, res) ==
    IF res = Throw("AuthorizationError") THEN Return(tk, st, Throw("redirect"))
    ELSE Return(tk, st, res)

\* authorizedFetch up to ensureAuthTokens or the first fetch (auth.ts 178-181)
authorizedFetch(tk, st, t) ==
    LET stored == getStoredTokens(st)
        tk1 == [Push(tk, "authorizedFetch")
                  EXCEPT !.caught = @ \/ stored.caught]
    IN  IF stored.value = None THEN ensureAuthTokens(tk1, stored.storage, t)
        ELSE authorizedFetch_send(tk1, stored.storage,
                                  Tokens(stored.value[1]))

\* authorizedFetch from its session to the first fetch (auth.ts 180-189)
authorizedFetch_send(tk, st, res) ==
    IF res.kind = "throw" THEN Return(tk, st, res)
    ELSE TS([tk EXCEPT !.tokens = res.session, !.pc = "req_fetch",
                       !.nReq = @ + 1, !.auth = AuthHeader(res.session[1])],
            st)

\* mutant: the refresh uses whatever refresh token is stored by then
authorizedFetch_response_stored(tk, st, status) ==
    LET tk1 == [tk EXCEPT !.first = status] IN
    IF status # 401 THEN Return(tk1, st, Response(status))
    ELSE refreshSession(tk1, st, None)

\* authorizedFetch from the first response (auth.ts 191-195)
authorizedFetch_response(tk, st, status) ==
    LET tk1 == [tk EXCEPT !.first = status] IN
    IF status # 401 THEN Return(tk1, st, Response(status))
    ELSE refreshSession(tk1, st, Some(tk1.tokens[1].refreshToken))

\* mutant: a failed refresh hands the 401 back instead of throwing
authorizedFetch_refreshed_nothrow(tk, st, res) ==
    IF res.kind = "throw" THEN Return(tk, st, res)
    ELSE IF res.kind = "null"
        THEN Return(tk, clearTokens(st), Response(401))
    ELSE TS([tk EXCEPT !.refreshed = res.session, !.pc = "retry_fetch",
                       !.nReq = @ + 1, !.auth = AuthHeader(res.session[1])],
            st)

\* authorizedFetch after its refresh, to the retry (auth.ts 196-207)
authorizedFetch_refreshed(tk, st, res) ==
    IF res.kind = "throw" THEN Return(tk, st, res)
    ELSE IF res.kind = "null"
        THEN Return(tk, clearTokens(st), Throw("AuthorizationError"))
    ELSE TS([tk EXCEPT !.refreshed = res.session, !.pc = "retry_fetch",
                       !.nReq = @ + 1, !.auth = AuthHeader(res.session[1])],
            st)

\* mutant: a 401 on the retry starts another refresh-and-retry round
authorizedFetch_retried_again(tk, st, res) ==
    IF res.kind = "response" /\ res.status = 401
        THEN refreshSession(tk, st, Some(tk.refreshed[1].refreshToken))
    ELSE Return(tk, st, res)

\* authorizedFetch settles as its retry does (auth.ts 207)
authorizedFetch_retried(tk, st, res) == Return(tk, st, res)

\* logout up to authorizedFetch (auth.ts 210-216)
logout(tk, st, t, api) ==
    LET tk1 == Push(tk, "logout") IN
    IF api THEN authorizedFetch(tk1, st, t)
    ELSE logout_finally(tk1, st, Void)

\* mutant: the storage is cleared in the try block, not in finally
logout_finally_try(tk, st, res) ==
    IF res.kind = "throw" THEN Return(tk, st, Void)
    ELSE Return(tk, clearTokens(st), Void)

\* logout's catch and finally (auth.ts 217-223)
logout_finally(tk, st, res) == Return(tk, clearTokens(st), Void)

\* authenticate up to its fetch (auth.ts 83-89)
authenticate(tk, st) ==
    TS([Push(tk, "authenticate") EXCEPT !.pc = "login_fetch"], st)

\* authenticate from the answer of its fetch (auth.ts 91-99)
authenticate_response(tk, st, status) ==
    IF ~Ok(status)
        THEN Return(tk, st,
                    Throw(IF status = 401 \/ status = 400
                              THEN "Error: credenciales invalidas"
                              ELSE "Error: no se pudo iniciar sesion"))
    ELSE TS([tk EXCEPT !.pc = "login_json"], st)

\* authenticate from the decoded body (auth.ts 99-102)
authenticate_json(tk, st, data) ==
    LET tokens == parseTokens(data) IN
    Return(tk, persistTokens(st, tokens), Tokens(tokens))

\* a fetch rejects (network failure): the awaiting function throws
fetch_rejected(tk, st) ==
    Return([tk EXCEPT !.refresh = IF tk.pc = "rs_fetch" THEN "rejected" ELSE @],
           st, Throw("TypeError"))

(* ------------------- the gateway functions (api.ts) -------------------- *)

\* a call hands decoded data to its caller
Data(value) == [Res("data", "", 0, None) EXCEPT !.value = Some(value)]

\* throw new Error(message)
Error(message) == [Throw("Error") EXCEPT !.message = Some(message)]

\* "UTC-05:00 America/Lima"
Lima ==
    <<"U", "T", "C", "-", "0", "5", ":", "0", "0", " ", "A", "m", "e", "r",
      "i", "c", "a", "/", "L", "i", "m", "a">>

\* part_004 233-254, as the gateway functions return it
fallbackAutomationRule ==
    [activo |-> TRUE,
     ventana_aleatoria_minutos |-> Some(10),
     telefono |-> None,
     entrada |-> [habilitado |-> TRUE,
                  hora_local |-> Some(<<"0", "8", ":", "0", "5">>),
                  hora_utc |-> None,
                  dias |-> <<"Lun", "Mar", "Mie", "Jue", "Vie">>],
     salida |-> [habilitado |-> TRUE,
                 hora_local |-> Some(<<"1", "7", ":", "3", "0">>),
                 hora_utc |-> None,
                 dias |-> <<"Lun", "Mar", "Mie", "Jue", "Vie">>],
     ubicacion |-> [direccion |-> Some(<<"A", "v", ".", " ", "E", "x", "a",
                                         "m", "p", "l", "e", " ", "1", "2",
                                         "3">>),
                    lat |-> Some(0 - 1204318),
                    lng |-> Some(0 - 7702824),
                    radio_metros |-> Some(150)],
     zona_horaria |-> Some(Lima)]

\* part_004 224-231
fallbackTimezones ==
    <<<<"U", "T", "C", "-", "0", "5", ":", "0", "0", " ", "A", "m", "e", "r",
        "i", "c", "a", "/", "L", "i", "m", "a">>,
      <<"U", "T", "C", "-", "0", "3", ":", "0", "0", " ", "A", "m", "e", "r",
        "i", "c", "a", "/", "S", "a", "o", "_", "P", "a", "u", "l", "o">>,
      <<"U", "T", "C", "-", "0", "6", ":", "0", "0", " ", "A", "m", "e", "r",
        "i", "c", "a", "/", "B", "o", "g", "o", "t", "a">>,
      <<"U", "T", "C", "-", "0", "8", ":", "0", "0", " ", "A", "m", "e", "r",
        "i", "c", "a", "/", "L", "o", "s", "_", "A", "n", "g", "e", "l", "e",
        "s">>,
      <<"U", "T", "C", "+", "0", "0", ":", "0", "0", " ", "U", "T", "C">>,
      <<"U", "T", "C", "+", "0", "1", ":", "0", "0", " ", "E", "u", "r", "o",
        "p", "e", "/", "M", "a", "d", "r", "i", "d">>>>

\* handleJson up to the reading of the body (part_004 256-261)
handleJson(tk, st, response) ==
    LET tk1 == [Push(tk, "handleJson") EXCEPT !.response = response.status] IN
    IF ~Ok(response.status) THEN TS([tk1 EXCEPT !.pc = "hj_text"], st)
    ELSE TS([tk1 EXCEPT !.pc = "hj_json"], st)

\* handleJson from the text of a non-2xx answer (part_004 258-259)
handleJson_text(tk, st, text) ==
    Return([tk EXCEPT !.text = Some(text)], st,
           Error(IF text # "" THEN text ELSE "Error en la solicitud"))

\* handleJson from the decoded body of a 2xx answer (part_004 261)
handleJson_json(tk, st, data) == Return(tk, st, Data(data))

\* fetchAutomationRule up to authorizedFetch (part_004 264-272)
fetchAutomationRule(tk, st, t, api) ==
    LET tk1 == Push(tk, "fetchAutomationRule") IN
    IF ~api THEN Return(tk1, st, Data(fallbackAutomationRule))
    ELSE authorizedFetch(tk1, st, t)

\* fetchAutomationRule after authorizedFetch (part_004 269-273, 277-279)
fetchAutomationRule_fetched(tk, st, res) ==
    IF res.kind = "throw" THEN Return(tk, st, Data(fallbackAutomationRule))
    ELSE handleJson(tk, st, res)

\* fetchAutomationRule after handleJson (part_004 273-279)
fetchAutomationRule_handled(tk, st, res) ==
    IF res.kind = "throw" THEN Return(tk, st, Data(fallbackAutomationRule))
    ELSE Return(tk, st, Data(_parseRule(res.value[1])))

\* fetchAvailableTimezones up to authorizedFetch (part_004 282-290)
fetchAvailableTimezones(tk, st, t, api) ==
    LET tk1 == Push(tk, "fetchAvailableTimezones") IN
    IF ~api THEN Return(tk1, st, Data(fallbackTimezones))
    ELSE authorizedFetch(tk1, st, t)

\* fetchAvailableTimezones after authorizedFetch (part_004 287-294)
fetchAvailableTimezones_fetched(tk, st, res) ==
    IF res.kind = "throw" THEN Return(tk, st, Data(fallbackTimezones))
    ELSE handleJson(tk, st, res)

\* fetchAvailableTimezones after handleJson (part_004 291-294)
fetchAvailableTimezones_handled(tk, st, res) ==
    IF res.kind = "throw" THEN Return(tk, st, Data(fallbackTimezones))
    ELSE Return(tk, st, res)

\* saveAutomationRule up to its timer or authorizedFetch (part_004 297-312)
saveAutomationRule(tk, st, t, api) ==
    LET tk1 == Push(tk, "saveAutomationRule") IN
    IF ~api THEN TS([tk1 EXCEPT !.pc = "mock_timer"], st)
    ELSE authorizedFetch(tk1, st, t)

\* saveAutomationRule after the 600 ms of the mock (part_004 301-303)
saveAutomationRule_timer(tk, st) == Return(tk, st, Void)

\* saveAutomationRule after authorizedFetch (part_004 306-314)
saveAutomationRule_fetched(tk, st, res) ==
    IF res.kind = "throw" THEN Return(tk, st, res)
    ELSE handleJson(tk, st, res)

\* saveAutomationRule after handleJson (part_004 314-315)
saveAutomationRule_handled(tk, st, res) ==
    IF res.kind = "throw" THEN Return(tk, st, res)
    ELSE Return(tk, st, Void)

\* markAutomationNow up to its timer or authorizedFetch (part_004 317-333)
markAutomationNow(tk, st, t, api) ==
    LET tk1 == Push(tk, "markAutomationNow") IN
    IF ~api THEN TS([tk1 EXCEPT !.pc = "mock_timer"], st)
    ELSE authorizedFetch(tk1, st, t)

\* markAutomationNow after the 400 ms of the mock (part_004 320-322)
markAutomationNow_timer(tk, st) == Return(tk, st, Void)

\* markAutomationNow after authorizedFetch (part_004 325-335)
markAutomationNow_fetched(tk, st, res) ==
    IF res.kind = "throw" THEN Return(tk, st, res)
    ELSE handleJson(tk, st, res)

\* markAutomationNow after handleJson (part_004 335-336)
markAutomationNow_handled(tk, st, res) ==
    IF res.kind = "throw" THEN Return(tk, st, res)
    ELSE Return(tk, st, Void)

\* fetchAttendanceCredentials: GET /attendance/credentials with the bearer
\* token; 401, 404 and 503 are its errors
fetchAttendanceCredentials(tk, st, t) ==
    authorizedFetch(Push(tk, "fetchAttendanceCredentials"), st, t)

fetchAttendanceCredentials_fetched(tk, st, res) ==
    IF res.kind = "throw" THEN Return(tk, st, res)
    ELSE handleJson(tk, st, res)

fetchAttendanceCredentials_handled(tk, st, res) == Return(tk, st, res)

\* automationLoader up to requireAuthTokens (automation.tsx 22-27)
automationLoader(tk, st, t) ==
    requireAuthTokens(Push(tk, "automationLoader"), st, t)

\* automationLoader after requireAuthTokens, about to call the three fetches
\* (automation.tsx 27-34)
automationLoader_required(tk, st, res) ==
    IF res.kind = "throw" THEN Return(tk, st, res)
    ELSE TS([tk EXCEPT !.tokens = res.session, !.pc = "all_start"], st)

\* automationLoader after Promise.all (automation.tsx 30-48)
automationLoader_all(tk, st, res) ==
    IF res.kind = "throw"
        THEN IF res.err = "AuthorizationError"
                 THEN Return(tk, st, Throw("redirect"))
             ELSE Return(tk, st, res)
    ELSE Return(tk, st, Data([tokens |-> tk.tokens[1],
                              rule |-> res.value[1][1],
                              timezones |-> res.value[1][2],
                              credentials |-> res.value[1][3]]))

\* the position of a function in the array handed to Promise.all
\* (automation.tsx 30-34)
Children == {3, 4, 5}

\* the task of the loader
Loader == 1

AllTasks == Tasks \cup Children

\* the tasks and the storage after a step
Run(tasks, st) == [tasks |-> tasks, storage |-> st]

\* the call r of the function at position c of the array has run up to its
\* first await
Started(tasks, c, r) == Run([tasks EXCEPT ![c] = r.task], r.storage)

\* the three fetches are called in the order of the array, each running up
\* to its first await (automation.tsx 30-34)
StartRule(run, t, api) ==
    Started([run.tasks EXCEPT ![Loader].pc = "all"], 3,
            fetchAutomationRule(NewTask("fetchAutomationRule"), run.storage,
                                t, api))

StartTimezones(run, t, api) ==
    Started(run.tasks, 4,
            fetchAvailableTimezones(NewTask("fetchAvailableTimezones"),
                                    run.storage, t, api))

StartCredentials(run, t) ==
    Started(run.tasks, 5,
            fetchAttendanceCredentials(NewTask("fetchAttendanceCredentials"),
                                       run.storage, t))

StartAll(run, t, api) ==
    StartCredentials(StartTimezones(StartRule(run, t, api), t, api), t)

\* the fetches that have rejected
Rejected(tasks) ==
    {c \in Children : tasks[c].pc = "done" /\ tasks[c].out.kind = "throw"}

\* what Promise.all settles with: the first rejection among the three, or
\* their values once all are fulfilled
AllSettled(tasks) ==
    IF Rejected(tasks) # {}
        THEN tasks[CHOOSE c \in Rejected(tasks) :
                       \A d \in Rejected(tasks) : c <= d].out
    ELSE Data(<<tasks[3].out.value[1], tasks[4].out.value[1],
                tasks[5].out.value[1]>>)

\* the loader resumes when Promise.all has settled
JoinAll(run) ==
    IF \/ Rejected(run.tasks) # {}
       \/ \A c \in Children : run.tasks[c].pc = "done"
        THEN Started(run.tasks, Loader,
                     automationLoader_all(run.tasks[Loader], run.storage,
                                          AllSettled(run.tasks)))
    ELSE run

\* the microtasks that follow a step: the loader calls the three fetches
\* when it has its session, and resumes when Promise.all settles
Microtasks(run, t, api) ==
    IF run.tasks[Loader].pc = "all_start"
        THEN JoinAll(StartAll(run, t, api))
    ELSE IF run.tasks[Loader].pc = "all" THEN JoinAll(run)
    ELSE run

\* the step is taken
Commit(run) ==
    /\ task' = run.tasks
    /\ storage' = run.storage

(* ------------------------------ actions ------------------------------- *)

\* task t takes the step r, and the microtasks it leaves run
Apply(t, r) ==
    Commit(Microtasks(Started(task, t, r), now, apiBase))

Idle(t) == task[t].op = "idle"

At(t, pc) == task[t].pc = pc

Statuses == {200, 401, 500}

LoginStatuses == {200, 400, 401, 500}

authenticate_call(t) ==
    /\ Idle(t)
    /\ Apply(t, authenticate(NewTask("authenticate"), storage))
    /\ UNCHANGED <<now, issued, apiBase, views>>

refreshSession_call(t) ==
    /\ Idle(t)
    /\ \E rt \in {None} \cup {Some(g) : g \in 0..issued} :
           Apply(t, refreshSession(NewTask("refreshSession"), storage, rt))
    /\ UNCHANGED <<now, issued, apiBase, views>>

ensureAuthTokens_call(t) ==
    /\ Idle(t)
    /\ Apply(t, ensureAuthTokens(NewTask("ensureAuthTokens"), storage, now))
    /\ UNCHANGED <<now, issued, apiBase, views>>

requireAuthTokens_call(t) ==
    /\ Idle(t)
    /\ Apply(t, requireAuthTokens(NewTask("requireAuthTokens"), storage, now))
    /\ UNCHANGED <<now, issued, apiBase, views>>

authorizedFetch_call(t) ==
    /\ Idle(t)
    /\ Apply(t, authorizedFetch(NewTask("authorizedFetch"), storage, now))
    /\ UNCHANGED <<now, issued, apiBase, views>>

logout_call(t) ==
    /\ Idle(t)
    /\ Apply(t, logout(NewTask("logout"), storage, now, apiBase))
    /\ UNCHANGED <<now, issued, apiBase, views>>

clearTokens_call(t) ==
    /\ Idle(t)
    /\ Apply(t, Return(Push(NewTask("clearTokens"), "clearTokens"),
                       clearTokens(storage), Void))
    /\ UNCHANGED <<now, issued, apiBase, views>>

getStoredTokens_call(t) ==
    /\ Idle(t)
    /\ LET g == getStoredTokens(storage) IN
       Apply(t, Return([Push(NewTask("getStoredTokens"), "getStoredTokens")
                          EXCEPT !.caught = g.caught],
                       g.storage,
                       IF g.value = None THEN Null ELSE Tokens(g.value[1])))
    /\ UNCHANGED <<now, issued, apiBase, views>>

\* the login endpoint answers
login_response(t) ==
    /\ At(t, "login_fetch")
    /\ \E status \in LoginStatuses :
           /\ Ok(status) => issued < MaxIssued
           /\ Apply(t, authenticate_response(task[t], storage, status))
    /\ UNCHANGED <<now, issued, apiBase, views>>

\* response.json() of the login answer resolves
login_json(t, segs, tts) ==
    /\ At(t, "login_json")
    /\ issued < MaxIssued
    /\ \E seg \in segs, tt \in tts :
           Apply(t, authenticate_json(task[t], storage,
                                      Body(issued + 1, seg, tt)))
    /\ issued' = issued + 1
    /\ UNCHANGED <<now, apiBase, views>>

\* the refresh endpoint answers
refresh_response(t) ==
    /\ At(t, "rs_fetch")
    /\ \E status \in Statuses :
           /\ Ok(status) => issued < MaxIssued
           /\ Apply(t, refreshSession_response(task[t], storage, status))
    /\ UNCHANGED <<now, issued, apiBase, views>>

\* response.json() of the refresh answer resolves
refresh_json(t, segs, tts) ==
    /\ At(t, "rs_json")
    /\ issued < MaxIssued
    /\ \E seg \in segs, tt \in tts :
           Apply(t, refreshSession_json(task[t], storage,
                                        Body(issued + 1, seg, tt)))
    /\ issued' = issued + 1
    /\ UNCHANGED <<now, apiBase, views>>

\* the gateway answers the request of authorizedFetch
request_response(t) ==
    /\ At(t, "req_fetch")
    /\ \E status \in Statuses :
           Apply(t, authorizedFetch_response(task[t], storage, status))
    /\ UNCHANGED <<now, issued, apiBase, views>>

\* the gateway answers the retried request
retry_response(t) ==
    /\ At(t, "retry_fetch")
    /\ \E status \in Statuses :
           Apply(t, authorizedFetch_retried(task[t], storage,
                                            Response(status)))
    /\ UNCHANGED <<now, issued, apiBase, views>>

\* a pending fetch fails at network level
network_rejected(t) ==
    /\ task[t].pc \in {"login_fetch", "rs_fetch", "req_fetch", "retry_fetch"}
    /\ Apply(t, fetch_rejected(task[t], storage))
    /\ UNCHANGED <<now, issued, apiBase, views>>

\* the caller has consumed the outcome; the task may run another call
Forget(t) ==
    /\ At(t, "done")
    /\ task' = [task EXCEPT ![t] = IdleTask]
    /\ UNCHANGED <<storage, now, issued, apiBase, views>>

\* instants (ms) around the expiry thresholds of the exp claims in use
Instants == {4999, 5000, 5999, 6000, 21000}

\* the instants in use while several tasks race
RaceInstants == {4999, 5000}

Tick(instants) ==
    /\ \E i \in instants : i > now /\ now' = i
    /\ UNCHANGED <<storage, issued, apiBase, task, views>>

(* --------------------------- specifications --------------------------- *)

\* no editor is mounted
NoForm == [kind |-> "none"]

\* no function is under evaluation
NoCalc == [fn |-> "none"]

\* what localStorage may hold when the page loads: nothing, a session a
\* previous page persisted, or a session record that no longer decodes
StoredAtLoad(segs, tts) ==
    {EmptyStorage}
        \cup {persistTokens(EmptyStorage, parseTokens(Body(0, seg, tt))) :
                 seg \in segs, tt \in tts}
        \cup {[persistTokens(EmptyStorage,
                             parseTokens(Body(0, seg, None)))
                 EXCEPT !.raw = Corrupt] : seg \in {Seg("json", Some(20))}}

InitWith(segs, tts, instants) ==
    /\ storage \in StoredAtLoad(segs, tts)
    /\ now \in instants
    /\ issued = 0
    /\ apiBase \in BOOLEAN
    /\ task = [t \in Tasks |-> IdleTask]
    /\ form = NoForm
    /\ sent = None
    /\ calc = NoCalc

Init == InitWith(Segments, TokenTypes, Instants)

Next ==
    \/ authenticate_call(1)
    \/ refreshSession_call(1)
    \/ ensureAuthTokens_call(1)
    \/ requireAuthTokens_call(1)
    \/ authorizedFetch_call(1)
    \/ logout_call(1)
    \/ clearTokens_call(1)
    \/ getStoredTokens_call(1)
    \/ login_response(1)
    \/ login_json(1, Segments, TokenTypes)
    \/ refresh_response(1)
    \/ refresh_json(1, Segments, TokenTypes)
    \/ request_response(1)
    \/ retry_response(1)
    \/ network_rejected(1)
    \/ Forget(1)
    \/ Tick(Instants)

\* one task at a time
Spec == Init /\ [][Next]_vars

RaceInit == InitWith(RaceSegments, {None}, RaceInstants)

RaceNext ==
    \/ \E t \in Tasks :
          \/ authenticate_call(t)
          \/ refreshSession_call(t)
          \/ ensureAuthTokens_call(t)
          \/ authorizedFetch_call(t)
          \/ logout_call(t)
          \/ clearTokens_call(t)
          \/ login_response(t)
          \/ login_json(t, RaceSegments, {None})
          \/ refresh_response(t)
          \/ refresh_json(t, RaceSegments, {None})
          \/ request_response(t)
          \/ retry_response(t)
          \/ network_rejected(t)
          \/ Forget(t)
    \/ Tick(RaceInstants)

\* several tasks in flight
RaceSpec == RaceInit /\ [][RaceNext]_vars

(* -------------------- the functions under evaluation ------------------ *)

session == <<storage, now, issued, apiBase, task>>

\* the Session Manager at rest and no editor mounted
Quiet ==
    /\ storage = EmptyStorage
    /\ now = 0
    /\ issued = 0
    /\ apiBase = FALSE
    /\ task = [t \in Tasks |-> IdleTask]
    /\ form = NoForm
    /\ sent = None

\* "HH:MM" for hour h and minute m
Time(h, m) == padStart2(h) \o <<":">> \o padStart2(m)

ValidTimes == {Time(h, m) : h \in 0..23, m \in 0..59}

\* "", " ", " 08:05 ", "8:05", "24:00", "08:60", "08:05:30"
OtherTimes ==
    {<<>>, <<" ">>,
     <<" ", "0", "8", ":", "0", "5", " ">>,
     <<"8", ":", "0", "5">>,
     <<"2", "4", ":", "0", "0">>,
     <<"0", "8", ":", "6", "0">>,
     <<"0", "8", ":", "0", "5", ":", "3", "0">>}

\* offsets in minutes: of the zones in use, of whole days, and odd ones
Offsets ==
    {0 - 2881, 0 - 1440, 0 - 1439, 0 - 480, 0 - 300, 0 - 299, 0 - 1, 0, 1,
     60, 330, 345, 765, 1439, 1440, 1441, 3000}

\* toUtcTime on a time and an offset, then on its result and the opposite
\* offset
TimeInit ==
    /\ Quiet
    /\ calc \in [fn : {"toUtcTime"}, pc : {"time"},
                 time : ValidTimes \cup OtherTimes, offsetMinutes : Offsets,
                 utc : {None}, local : {None}]

toUtcTime_call ==
    /\ calc.fn = "toUtcTime" /\ calc.pc = "time"
    /\ calc' = [calc EXCEPT !.pc = "utc",
                            !.utc = toUtcTime(calc.time, calc.offsetMinutes)]
    /\ UNCHANGED <<session, form, sent>>

toUtcTime_back ==
    /\ calc.fn = "toUtcTime" /\ calc.pc = "utc"
    /\ calc.utc # None
    /\ calc' = [calc EXCEPT !.pc = "local",
                            !.local = toUtcTime(calc.utc[1],
                                                0 - calc.offsetMinutes)]
    /\ UNCHANGED <<session, form, sent>>

TimeNext ==
    \/ toUtcTime_call
    \/ toUtcTime_back

TimeSpec == TimeInit /\ [][TimeNext]_vars

\* the day values a block may hold: weekday keys, and a value the gateway
\* sent that is none
DayValues == {"Lun", "Mie", "Vie", "Dom", "Feriado"}

\* the lists of at most n values of S, none twice
Lists(S, n) ==
    {l \in UNION {[1..k -> S] : k \in 0..n} :
        \A i, j \in 1..Len(l) : i # j => l[i] # l[j]}

\* "", " ", "08:05", " 08:05 ", "8:05", "24:00", "23:59"
LocalTimes ==
    {<<>>, <<" ">>,
     <<"0", "8", ":", "0", "5">>,
     <<" ", "0", "8", ":", "0", "5", " ">>,
     <<"8", ":", "0", "5">>,
     <<"2", "4", ":", "0", "0">>,
     <<"2", "3", ":", "5", "9">>}

\* hora_utc as stored: none, or "11:11"
StoredUtc == {None, Some(<<"1", "1", ":", "1", "1">>)}

\* "UTC+05:30 Asia/Kolkata"
Kolkata ==
    <<"U", "T", "C", "+", "0", "5", ":", "3", "0", " ", "A", "s", "i", "a",
      "/", "K", "o", "l", "k", "a", "t", "a">>

\* "", "America/Lima" and the two labels
Timezones ==
    {<<>>, Lima, Kolkata,
     <<"A", "m", "e", "r", "i", "c", "a", "/", "L", "i", "m", "a">>}

Blocks ==
    {Block(h, t, u, d) :
        h \in BOOLEAN, t \in LocalTimes, u \in StoredUtc,
        d \in Lists(DayValues, MaxDays)}

\* normalizeBlock and toPersistedBlock on a block and a timezone
BlockInit ==
    /\ Quiet
    /\ calc \in [fn : {"toPersistedBlock"}, pc : {"block"}, block : Blocks,
                 timezone : Timezones, normalized : {None},
                 persisted : {None}]

normalizeBlock_call ==
    /\ calc.fn = "toPersistedBlock" /\ calc.pc = "block"
    /\ calc' = [calc EXCEPT
                    !.pc = "normalized",
                    !.normalized =
                        Some(normalizeBlock(calc.block,
                                 extractOffsetMinutes(calc.timezone)))]
    /\ UNCHANGED <<session, form, sent>>

toPersistedBlock_call ==
    /\ calc.fn = "toPersistedBlock" /\ calc.pc = "normalized"
    /\ calc' = [calc EXCEPT
                    !.pc = "persisted",
                    !.persisted = Some(toPersistedBlock(calc.normalized[1]))]
    /\ UNCHANGED <<session, form, sent>>

BlockNext ==
    \/ normalizeBlock_call
    \/ toPersistedBlock_call

BlockSpec == BlockInit /\ [][BlockNext]_vars

\* the decoded body of the gateway's rule: every field may be missing
RawInput(isActive, is_active, randomWindowMinutes, random_window_minutes,
         phoneNumber, phone_number, schedule, location, timezone) ==
    [isActive |-> isActive, is_active |-> is_active,
     randomWindowMinutes |-> randomWindowMinutes,
     random_window_minutes |-> random_window_minutes,
     phoneNumber |-> phoneNumber, phone_number |-> phone_number,
     schedule |-> schedule, location |-> location, timezone |-> timezone]

\* {}
EmptyInput == RawInput(None, None, None, None, None, None, None, None, None)

\* "987654321"
Mobile == <<"9", "8", "7", "6", "5", "4", "3", "2", "1">>

\* "51234567": a number of eight digits whose area code is 51
Landline == <<"5", "1", "2", "3", "4", "5", "6", "7">>

\* "08:05:30", " 09:00 "
WithSeconds == <<"0", "8", ":", "0", "5", ":", "3", "0">>

Padded == <<" ", "0", "9", ":", "0", "0", " ">>

\* the entries in use for the exit block: missing, empty, snake_case only,
\* both variants
ExitEntries ==
    {None, Some(EmptyEntry),
     Some(RawScheduleEntry(Some(FALSE), None, Some(WithSeconds), None,
                           Some(Padded), Some(<<Some("sunday")>>))),
     Some(RawScheduleEntry(Some(TRUE), Some(Padded), Some(WithSeconds),
                           Some(WithSeconds), Some(Padded), None))}

\* rules with each two-variant field in camelCase, in snake_case, in both or
\* in neither, the two variants holding different values
VariantInputs ==
    {RawInput(a1, a2, w1, w2, p1, p2,
              Some([entry |-> Some(RawScheduleEntry(Some(TRUE), l1, l2, u1,
                                       u2, Some(<<Some("monday")>>))),
                    exit |-> x]),
              Some([address |-> Some(<<" ", "A", "v", " ", "1", " ">>),
                    latitude |-> Some(0 - 1204318),
                    longitude |-> None,
                    radiusMeters |-> r1, radius_meters |-> r2]),
              Some(Lima)) :
        a1 \in {None, Some(FALSE)}, a2 \in {None, Some(TRUE)},
        w1 \in {None, Some(0)}, w2 \in {None, Some(10)},
        p1 \in {None, Some(<<>>), Some(Mobile)},
        p2 \in {None, Some(Landline)},
        l1 \in {None, Some(WithSeconds)}, l2 \in {None, Some(Padded)},
        u1 \in {None, Some(Padded)}, u2 \in {None, Some(WithSeconds)},
        r1 \in {None, Some(0)}, r2 \in {None, Some(150)},
        x \in ExitEntries}

\* the entries of a day list: null, ISO names, a weekday key, a name in
\* capitals, a value that is no weekday, the name of an inherited member,
\* blank strings
DayEntries ==
    {None, Some("monday"), Some("sunday"), Some("Lun"), Some("Monday"),
     Some("Feriado"), Some("constructor"), Some(""), Some(" ")}

\* rules that differ in the day list of the entry block
DayInputs ==
    {[EmptyInput EXCEPT
         !.schedule = Some([entry |-> Some([EmptyEntry EXCEPT !.days = d]),
                            exit |-> None])] :
        d \in {None} \cup
              {Some(l) : l \in UNION {[1..k -> DayEntries] :
                                         k \in 0..MaxEntries}}}

\* national numbers of eight and nine digits: mobiles (9..), landlines of
\* Lima (01..) and of the areas 51 and 54
NationalNumbers ==
    {p \o x : p \in {<<"9", "8">>, <<"0", "1">>, <<"5", "1">>, <<"5", "4">>},
              x \in [1..6 -> {"2", "7"}] \cup [1..7 -> {"2", "7"}]}

\* phone numbers as the gateway may hold them: national, with the country
\* code, written with blanks and a plus sign, too short, too long, without
\* digits, empty, missing
PhoneNumbers ==
    {Some(d) : d \in NationalNumbers}
        \cup {Some(<<"5", "1">> \o d) : d \in NationalNumbers}
        \cup {Some(<<"+", "5", "1", " ">> \o d \o <<" ">>) :
                 d \in NationalNumbers}
        \cup {None, Some(<<>>), Some(<<" ">>), Some(<<"a", "b", "c">>),
              Some(<<"1", "2", "3", "4", "5">>),
              Some(<<" ", "1", "2", "3", "4", "5", " ">>),
              Some(<<"5", "1", "1", "2", "3", "4", "5">>),
              Some(<<"9", "8", "7", "6", "5", "4", "3", "2", "1", "0", "0">>)}

\* rules that differ in the phone number
PhoneInputs == {[EmptyInput EXCEPT !.phoneNumber = p] : p \in PhoneNumbers}

\* _parseRule on a decoded body
ParseInit ==
    /\ Quiet
    /\ calc \in [fn : {"_parseRule"}, pc : {"data"},
                 data : VariantInputs \cup DayInputs \cup PhoneInputs,
                 rule : {None}]

_parseRule_call ==
    /\ calc.fn \in {"_parseRule", "persistPayload", "submitForm"}
    /\ calc.pc = "data"
    /\ calc' = [calc EXCEPT !.pc = "rule",
                            !.rule = Some(_parseRule(calc.data))]
    /\ UNCHANGED <<session, form, sent>>

ParseNext == _parseRule_call

ParseSpec == ParseInit /\ [][ParseNext]_vars

(* ----------------------- the rule editor's steps ---------------------- *)

\* a rule whose optional fields are unset and whose stored number is
\* international
UnsetRule ==
    [fallbackAutomationRule EXCEPT
         !.ventana_aleatoria_minutos = None,
         !.telefono = Some(<<"+", "5", "1">> \o Mobile),
         !.salida.hora_local = None,
         !.ubicacion = [direccion |-> None, lat |-> None, lng |-> None,
                        radio_metros |-> None],
         !.zona_horaria = None]

\* a rule as another client stored it: the entry time " 08:05 " with a UTC
\* time beside it, the entry days out of order, the exit disabled
StoredRule ==
    [fallbackAutomationRule EXCEPT
         !.entrada = [habilitado |-> TRUE,
                      hora_local |-> Some(<<" ", "0", "8", ":", "0", "5",
                                            " ">>),
                      hora_utc |-> Some(<<"1", "1", ":", "1", "1">>),
                      dias |-> <<"Vie", "Lun">>],
         !.salida.habilitado = FALSE,
         !.salida.dias = <<"Dom">>]

\* the rules the editor is mounted on
MountedRules == {fallbackAutomationRule, UnsetRule, StoredRule}

\* what parsePhoneNumberFromString answers on the phone of a rule: nothing,
\* Peru, the United States, or a number of no country
ParsedPhones(rule) ==
    LET digits == normalizePhoneDigits(Coalesce(rule.telefono,
                                                Some(<<>>))[1])
    IN  {None,
         Some([country |-> Some("PE"), nationalNumber |-> slice(digits, 2)]),
         Some([country |-> Some("US"), nationalNumber |-> slice(digits, 1)]),
         Some([country |-> None, nationalNumber |-> digits])}

\* what the library answers as the E.164 form of the phone of a draft:
\* nothing, or the calling code of the country of the draft and the digits
\* without their trunk zero
E164Answers(values) ==
    LET digits == normalizePhoneDigits(values.phoneNumber)
        country == Coalesce(findPhoneCountry(values.phoneCountry),
                            Some(DEFAULT_PHONE_COUNTRY))[1]
    IN  {None,
         Some(<<"+">> \o country.dialCode
              \o (IF startsWith(digits, <<"0">>) THEN slice(digits, 1)
                  ELSE digits))}

\* the editor as mounted on a rule (AutomationScheduler.tsx 166-208).
\* geolocation: navigator.geolocation exists; events: the events of the user
\* since the mount
EditorInit ==
    /\ storage = EmptyStorage
    /\ now = 0
    /\ issued = 0
    /\ apiBase = FALSE
    /\ task = [t \in Tasks |-> IdleTask]
    /\ calc = NoCalc
    /\ sent = None
    /\ \E rule \in MountedRules, geolocation \in BOOLEAN :
       \E parsed \in ParsedPhones(rule) :
           form = [kind |-> "form", values |-> toFormValues(rule, parsed),
                   initialSnapshot |-> rule, isSaving |-> FALSE,
                   saveStatus |-> "none", showValidation |-> FALSE,
                   geolocation |-> geolocation,
                   geolocationLoading |-> FALSE, geolocationError |-> None,
                   events |-> 0]

Mounted == form.kind = "form"

\* an event of the user, of which a run has MaxEvents at most
UserEvent(next) ==
    /\ Mounted
    /\ form.events < MaxEvents
    /\ form' = [next EXCEPT !.events = form.events + 1]

\* a field handler has written the draft
onChange(values) ==
    /\ UserEvent([form EXCEPT !.values = values])
    /\ UNCHANGED <<session, sent, calc>>

\* AutomationScheduler.tsx 883-888
handleActiveChange ==
    \E value \in BOOLEAN : onChange([form.values EXCEPT !.isActive = value])

\* AutomationScheduler.tsx 625-628
handleEntryEnabledChange ==
    \E value \in BOOLEAN :
        onChange([form.values EXCEPT !.entry.habilitado = value])

\* AutomationScheduler.tsx 630-633
handleExitEnabledChange ==
    \E value \in BOOLEAN :
        onChange([form.values EXCEPT !.exit.habilitado = value])

\* the days the user toggles
ToggledDays == {"Lun"}

\* AutomationScheduler.tsx 617-619; the day buttons of a block that is off
\* are disabled (automation/types.ts 130, DaySelector)
handleEntryDayToggle ==
    /\ form.values.entry.habilitado
    /\ \E day \in ToggledDays :
        onChange([form.values EXCEPT !.entry.dias = toggleDay(@, day)])

\* AutomationScheduler.tsx 621-623; disabled as the entry's are
handleExitDayToggle ==
    /\ form.values.exit.habilitado
    /\ \E day \in ToggledDays :
        onChange([form.values EXCEPT !.exit.dias = toggleDay(@, day)])

\* the times typed into the entry block: "09:00", "8:05"
EntryTimesTyped == {<<"0", "9", ":", "0", "0">>, <<"8", ":", "0", "5">>}

\* the times typed into the exit block: "08:05", " "
ExitTimesTyped == {<<"0", "8", ":", "0", "5">>, <<" ">>}

\* AutomationScheduler.tsx 910; the time input of a block that is off is
\* disabled (automation/types.ts 119)
onEntryTimeChange ==
    /\ form.values.entry.habilitado
    /\ \E value \in EntryTimesTyped :
        onChange([form.values EXCEPT !.entry.hora_local = value])

\* AutomationScheduler.tsx 923; disabled as the entry's is
onExitTimeChange ==
    /\ form.values.exit.habilitado
    /\ \E value \in ExitTimesTyped :
        onChange([form.values EXCEPT !.exit.hora_local = value])

\* Number(s) of the text of a number input: decimal digits, after "-" or not
NumberOf(s) ==
    IF s # <<>> /\ s[1] = "-" THEN 0 - Number(Tail(s)) ELSE Number(s)

\* the texts of the random window input: "", "-1"
WindowsTyped == {<<>>, <<"-", "1">>}

\* AutomationScheduler.tsx 948-958
onRandomWindowChange ==
    \E nextValue \in WindowsTyped :
        onChange([form.values EXCEPT
                      !.randomWindowMinutes =
                          IF trim(nextValue) = <<>> THEN None
                          ELSE Some(NumberOf(nextValue))])

\* 88
MAX_NATIONAL_LENGTH == 15

\* the text of the phone input: "098 765 4321000000", of 16 digits
PhonesTyped ==
    {<<"0", "9", "8", " ", "7", "6", "5", " ", "4", "3", "2", "1", "0", "0",
       "0", "0", "0", "0">>}

\* AutomationScheduler.tsx 985-992: the country select writes the country,
\* then the digits of the number
onPhoneCountryChange ==
    \E i \in 1..Len(PHONE_COUNTRIES_WITH_FALLBACK) :
        LET nextCountry == PHONE_COUNTRIES_WITH_FALLBACK[i].id
            digits == normalizePhoneDigits(form.values.phoneNumber)
        IN  onChange([form.values EXCEPT
                          !.phoneCountry = nextCountry,
                          !.phoneNumber =
                              IF Len(digits) > MAX_NATIONAL_LENGTH
                                  THEN SubSeq(digits, 1, MAX_NATIONAL_LENGTH)
                              ELSE digits])

\* AutomationScheduler.tsx 1005-1010
onPhoneNumberChange ==
    \E value \in PhonesTyped :
        onChange([form.values EXCEPT
                      !.phoneNumber =
                          LET digits == normalizePhoneDigits(value)
                          IN  IF Len(digits) > MAX_NATIONAL_LENGTH
                                  THEN SubSeq(digits, 1, MAX_NATIONAL_LENGTH)
                              ELSE digits])

\* AutomationScheduler.tsx 1028, the address typed being " Av 2 "
addressField_onChange ==
    \E value \in {<<" ", "A", "v", " ", "2", " ">>} :
        onChange([form.values EXCEPT !.location.address = value])

\* the positions picked on the map or reported by the browser
Positions == {[lat |-> 0 - 1204600, lng |-> 0 - 7704280]}

\* AutomationScheduler.tsx 1032-1035
onPositionChange ==
    \E coords \in Positions :
        onChange([form.values EXCEPT !.location.lat = Some(coords.lat),
                                     !.location.lng = Some(coords.lng)])

\* the texts of the radius input: "", "0"
RadiiTyped == {<<>>, <<"0">>}

\* LocationSection.tsx 101-104 and AutomationScheduler.tsx 1036
onRadiusChange ==
    \E value \in RadiiTyped :
        onChange([form.values EXCEPT
                      !.location.radius =
                          IF value # <<>> THEN Some(Number(value))
                          ELSE None])

\* TimezoneSection.tsx 50-53 and AutomationScheduler.tsx 1047
onTimezoneChange ==
    \E value \in {Kolkata} :
        onChange([form.values EXCEPT !.timezone = value])

\* AutomationScheduler.tsx 635-644; the button is disabled while a position
\* is awaited
handleUseCurrentLocation ==
    /\ ~form.geolocationLoading
    /\ IF ~form.geolocation
           THEN UserEvent([form EXCEPT
                               !.geolocationError =
                                   Some("Tu navegador no admite geolocalizacion.")])
       ELSE UserEvent([form EXCEPT !.geolocationLoading = TRUE,
                                   !.geolocationError = None])
    /\ UNCHANGED <<session, sent, calc>>

\* the browser reports the position (AutomationScheduler.tsx 644-649)
getCurrentPosition_success ==
    /\ Mounted
    /\ form.geolocationLoading
    /\ \E coords \in Positions :
           form' = [form EXCEPT !.values.location.lat = Some(coords.lat),
                                !.values.location.lng = Some(coords.lng),
                                !.geolocationLoading = FALSE]
    /\ UNCHANGED <<session, sent, calc>>

\* the browser reports an error without a message (650-655)
getCurrentPosition_error ==
    /\ Mounted
    /\ form.geolocationLoading
    /\ \E message \in {""} :
           form' = [form EXCEPT
                        !.geolocationLoading = FALSE,
                        !.geolocationError =
                            IF message # "" THEN Some(message)
                            ELSE Some("No se pudo obtener tu ubicacion actual.")]
    /\ UNCHANGED <<session, sent, calc>>

\* 535: isValid is the verdict of the rules on the present values
canSave(valid) == validate(form.values, valid) /\ ~form.isSaving

\* AutomationScheduler.tsx 778-782 with handleSubmit and submitForm up to
\* the call of onSave (693-731); the Save button is disabled unless canSave
\* (SummaryLine.tsx 61).  valid and parsed are the answers of the phone
\* library on the number of the draft.
handleSave ==
    \E valid \in BOOLEAN, parsed \in E164Answers(form.values) :
        /\ canSave(valid) = TRUE
        /\ UserEvent([form EXCEPT !.showValidation = TRUE,
                                  !.saveStatus = "none",
                                  !.isSaving = TRUE])
        /\ sent' = Some([values |-> form.values,
                         payload |-> persistPayload(form.values, parsed),
                         parsed |-> parsed])
        /\ UNCHANGED <<session, calc>>

\* onSave resolves (AutomationScheduler.tsx 736-764, 773-775)
onSave_resolved ==
    /\ Mounted
    /\ form.isSaving /\ sent # None
    /\ LET snapshot == savedRule(sent[1].values, sent[1].parsed) IN
       \E parsed \in ParsedPhones(snapshot) :
           form' = [form EXCEPT
                        !.values = toFormValues(snapshot, parsed),
                        !.initialSnapshot = snapshot,
                        !.saveStatus = "success",
                        !.showValidation = FALSE,
                        !.isSaving = FALSE]
    /\ sent' = None
    /\ UNCHANGED <<session, calc>>

\* onSave rejects (AutomationScheduler.tsx 765-775)
onSave_rejected ==
    /\ Mounted
    /\ form.isSaving /\ sent # None
    /\ form' = [form EXCEPT !.saveStatus = "error", !.isSaving = FALSE]
    /\ sent' = None
    /\ UNCHANGED <<session, calc>>

\* AutomationScheduler.tsx 784-789; the Reset button is disabled while a
\* save is under way (SummaryLine.tsx 69)
handleReset ==
    /\ ~form.isSaving
    /\ \E parsed \in ParsedPhones(form.initialSnapshot) :
           UserEvent([form EXCEPT
                          !.values = toFormValues(form.initialSnapshot,
                                                  parsed),
                          !.saveStatus = "none",
                          !.showValidation = FALSE])
    /\ UNCHANGED <<session, sent, calc>>

EditorNext ==
    \/ handleActiveChange
    \/ handleEntryEnabledChange
    \/ handleExitEnabledChange
    \/ handleEntryDayToggle
    \/ handleExitDayToggle
    \/ onEntryTimeChange
    \/ onExitTimeChange
    \/ onRandomWindowChange
    \/ onPhoneCountryChange
    \/ onPhoneNumberChange
    \/ addressField_onChange
    \/ onPositionChange
    \/ onRadiusChange
    \/ onTimezoneChange
    \/ handleUseCurrentLocation
    \/ getCurrentPosition_success
    \/ getCurrentPosition_error
    \/ handleSave
    \/ onSave_resolved
    \/ onSave_rejected
    \/ handleReset

EditorSpec == EditorInit /\ [][EditorNext]_vars

\* the drafts whose translation is parsed back: the entry block enabled or
\* not, its local time "08:05", "23:59", " 08:05 " or "24:00", its days any
\* list of weekday keys; the exit block enabled at "17:30", enabled at
\* "00:00" on every weekend day, or disabled
TranslatedDrafts ==
    {[toFormValues(fallbackAutomationRule, None) EXCEPT !.entry = e, !.exit = x] :
        e \in {Block(h, t, None, d) :
                  h \in BOOLEAN,
                  t \in {<<"0", "8", ":", "0", "5">>,
                         <<"2", "3", ":", "5", "9">>,
                         <<" ", "0", "8", ":", "0", "5", " ">>,
                         <<"2", "4", ":", "0", "0">>},
                  d \in Lists({DAYS[k] : k \in 1..7}, MaxDays)},
        x \in {Block(TRUE, <<"1", "7", ":", "3", "0">>, None, <<"Lun">>),
               Block(TRUE, <<"0", "0", ":", "0", "0">>,
                     Some(<<"1", "1", ":", "1", "1">>), <<"Dom", "Sab">>),
               Block(FALSE, <<"1", "7", ":", "3", "0">>, None, <<"Lun">>)}}

\* the save translation of a draft, then _parseRule on the payload as the
\* gateway hands it back
TranslateInit ==
    /\ Quiet
    /\ calc \in [fn : {"persistPayload"}, pc : {"values"},
                 values : TranslatedDrafts, data : {EmptyInput},
                 rule : {None}]

persistPayload_call ==
    /\ calc.fn = "persistPayload" /\ calc.pc = "values"
    /\ calc' = [calc EXCEPT
                    !.pc = "data",
                    !.data = AsRawInput(persistPayload(calc.values, None))]
    /\ UNCHANGED <<session, form, sent>>

TranslateNext ==
    \/ persistPayload_call
    \/ _parseRule_call

TranslateSpec == TranslateInit /\ [][TranslateNext]_vars

(* -------------------------- the gateway's steps ------------------------ *)

fetchAutomationRule_call(t) ==
    /\ Idle(t)
    /\ Apply(t, fetchAutomationRule(NewTask("fetchAutomationRule"), storage,
                                    now, apiBase))
    /\ UNCHANGED <<now, issued, apiBase, views>>

fetchAvailableTimezones_call(t) ==
    /\ Idle(t)
    /\ Apply(t, fetchAvailableTimezones(NewTask("fetchAvailableTimezones"),
                                        storage, now, apiBase))
    /\ UNCHANGED <<now, issued, apiBase, views>>

saveAutomationRule_call(t) ==
    /\ Idle(t)
    /\ Apply(t, saveAutomationRule(NewTask("saveAutomationRule"), storage,
                                   now, apiBase))
    /\ UNCHANGED <<now, issued, apiBase, views>>

markAutomationNow_call(t) ==
    /\ Idle(t)
    /\ Apply(t, markAutomationNow(NewTask("markAutomationNow"), storage, now,
                                  apiBase))
    /\ UNCHANGED <<now, issued, apiBase, views>>

\* the router runs the loader of the console's route
automationLoader_call ==
    /\ \A t \in {Loader} \cup Children : Idle(t)
    /\ Apply(Loader, automationLoader(NewTask("automationLoader"), storage,
                                      now))
    /\ UNCHANGED <<now, issued, apiBase, views>>

\* the body texts of the non-2xx answers in use: empty, or a message
Texts == {"", "Service Unavailable"}

\* response.text() of a non-2xx answer resolves
body_text(t, texts) ==
    /\ At(t, "hj_text")
    /\ \E text \in texts : Apply(t, handleJson_text(task[t], storage, text))
    /\ UNCHANGED <<now, issued, apiBase, views>>

\* the decoded bodies of the 2xx answers in use, by operation: a rule with
\* no field or with a timezone only; a list of timezones; the credentials'
\* metadata; an acknowledgement
Bodies(op) ==
    CASE op = "fetchAutomationRule" ->
            {EmptyInput, [EmptyInput EXCEPT !.timezone = Some(Kolkata)]}
      [] op = "fetchAvailableTimezones" -> {<<Kolkata>>}
      [] op = "fetchAttendanceCredentials" ->
            {[companyId |-> 7040, userId |-> 77668171, hasPassword |-> TRUE]}
      [] OTHER -> {[success |-> TRUE]}

\* response.json() of a 2xx answer resolves
body_json(t) ==
    /\ At(t, "hj_json")
    /\ \E data \in Bodies(task[t].op) :
           Apply(t, handleJson_json(task[t], storage, data))
    /\ UNCHANGED <<now, issued, apiBase, views>>

\* the timer of a mock elapses
timer_fired(t) ==
    /\ At(t, "mock_timer")
    /\ Apply(t, IF task[t].op = "saveAutomationRule"
                    THEN saveAutomationRule_timer(task[t], storage)
                ELSE markAutomationNow_timer(task[t], storage))
    /\ UNCHANGED <<now, issued, apiBase, views>>

GatewayInit ==
    /\ storage \in StoredAtLoad(RaceSegments, {None})
    /\ now \in RaceInstants
    /\ issued = 0
    /\ apiBase \in BOOLEAN
    /\ task = [t \in AllTasks |-> IdleTask]
    /\ form = NoForm
    /\ sent = None
    /\ calc = NoCalc

GatewayNext ==
    \/ fetchAutomationRule_call(Loader)
    \/ fetchAvailableTimezones_call(Loader)
    \/ saveAutomationRule_call(Loader)
    \/ markAutomationNow_call(Loader)
    \/ refresh_response(Loader)
    \/ refresh_json(Loader, RaceSegments, {None})
    \/ request_response(Loader)
    \/ retry_response(Loader)
    \/ network_rejected(Loader)
    \/ body_text(Loader, Texts)
    \/ body_json(Loader)
    \/ timer_fired(Loader)
    \/ Forget(Loader)
    \/ Tick(RaceInstants)

\* the gateway operations, one at a time
GatewaySpec == GatewayInit /\ [][GatewayNext]_vars

LoaderNext ==
    \/ automationLoader_call
    \/ \E t \in {Loader} \cup Children :
          \/ refresh_response(t)
          \/ refresh_json(t, RaceSegments, {None})
          \/ request_response(t)
          \/ retry_response(t)
          \/ network_rejected(t)
          \/ body_text(t, {"Service Unavailable"})
          \/ body_json(t)

\* the loader of the console's route, its three fetches in flight together
LoaderSpec == GatewayInit /\ [][LoaderNext]_vars

(* ---------------------- extractOffsetMinutes alone --------------------- *)

\* the label prefix "UTC" sign HH ":" MM suffix
Label(prefix, sign, hours, minutes, suffix) ==
    prefix \o <<"U", "T", "C", sign>> \o padStart2(hours) \o <<":">>
        \o padStart2(minutes) \o suffix

\* what precedes the offset in a label: nothing, "(", "GMT ", "UTC "
Prefixes ==
    {<<>>, <<"(">>, <<"G", "M", "T", " ">>, <<"U", "T", "C", " ">>}

\* what follows it: nothing, " America/Lima", "0", ", UTC+01:00"
Suffixes ==
    {<<>>,
     <<" ", "A", "m", "e", "r", "i", "c", "a", "/", "L", "i", "m", "a">>,
     <<"0">>,
     <<",", " ", "U", "T", "C", "+", "0", "1", ":", "0", "0">>}

OffsetHours == {0, 1, 5, 9, 10, 12, 14, 23, 99}

OffsetMinutes == {0, 1, 30, 45, 59, 99}

\* labels with no offset: absent or "", "garbage", "UTC", "UTC-5:00",
\* "utc-05:00", "UTC 05:00", "UTC-05:3", "UTC-0530", "GMT-05:00"
Unlabelled ==
    {<<>>,
     <<"g", "a", "r", "b", "a", "g", "e">>,
     <<"U", "T", "C">>,
     <<"U", "T", "C", "-", "5", ":", "0", "0">>,
     <<"u", "t", "c", "-", "0", "5", ":", "0", "0">>,
     <<"U", "T", "C", " ", "0", "5", ":", "0", "0">>,
     <<"U", "T", "C", "-", "0", "5", ":", "3">>,
     <<"U", "T", "C", "-", "0", "5", "3", "0">>,
     <<"G", "M", "T", "-", "0", "5", ":", "0", "0">>}

\* extractOffsetMinutes on a label; encoded: the offset the label was
\* written with (0 for a label with none)
OffsetInit ==
    /\ Quiet
    /\ \/ \E prefix \in Prefixes, sign \in {"+", "-"}, hours \in OffsetHours,
             minutes \in OffsetMinutes, suffix \in Suffixes :
             calc = [fn |-> "extractOffsetMinutes", pc |-> "timezone",
                     timezone |-> Label(prefix, sign, hours, minutes, suffix),
                     encoded |-> IF sign = "-"
                                     THEN 0 - (hours * 60 + minutes)
                                 ELSE hours * 60 + minutes,
                     offset |-> None]
       \/ \E label \in Unlabelled :
             calc = [fn |-> "extractOffsetMinutes", pc |-> "timezone",
                     timezone |-> label, encoded |-> 0, offset |-> None]

extractOffsetMinutes_call ==
    /\ calc.fn = "extractOffsetMinutes" /\ calc.pc = "timezone"
    /\ calc' = [calc EXCEPT
                    !.pc = "offset",
                    !.offset = Some(extractOffsetMinutes(calc.timezone))]
    /\ UNCHANGED <<session, form, sent>>

OffsetNext == extractOffsetMinutes_call

OffsetSpec == OffsetInit /\ [][OffsetNext]_vars

(* --------------------------- formatDays alone -------------------------- *)

\* Array.prototype.includes
includes(xs, x) == \E i \in 1..Len(xs) : xs[i] = x

\* Array.prototype.join(", "): the pieces of the text, in order
join(xs) ==
    [i \in 1..(2 * Len(xs) - 1) |->
        IF i % 2 = 1 THEN xs[(i + 1) \div 2] ELSE ", "]

\* utils.ts 34-54: the pieces of the label; "-" stands for the dash of the
\* source (U+2014 in the first label, U+2013 in the next two)
formatDays(days) ==
    LET weekdays == <<"Lun", "Mar", "Mie", "Jue", "Vie">>
        weekend == <<"Sab", "Dom">>
    IN  IF Len(days) = 0 THEN <<"-">>
        ELSE IF Len(days) = 7 THEN <<"Lun-Dom">>
        ELSE IF /\ Len(days) = 5
                /\ \A i \in 1..Len(weekdays) : includes(days, weekdays[i])
            THEN <<"Lun-Vie">>
        ELSE IF /\ Len(days) = 2
                /\ \A i \in 1..Len(weekend) : includes(days, weekend[i])
                /\ \A i \in 1..Len(days) : includes(weekend, days[i])
            THEN <<"Fin de semana">>
        ELSE join(days)

\* the day lists a block may hold: the weekday keys in any order, none
\* twice, and lists with a value the gateway sent that is no weekday key
FormattedDays ==
    Lists({DAYS[k] : k \in 1..7}, Len(DAYS))
        \cup {<<"Feriado">>, <<"Lun", "Feriado">>,
              <<"Lun", "Mar", "Mie", "Jue", "Feriado">>,
              <<"Lun", "Mar", "Mie", "Jue", "Vie", "Sab", "Feriado">>}

FormatInit ==
    /\ Quiet
    /\ calc \in [fn : {"formatDays"}, pc : {"days"}, days : FormattedDays,
                 label : {None}]

formatDays_call ==
    /\ calc.fn = "formatDays" /\ calc.pc = "days"
    /\ calc' = [calc EXCEPT !.pc = "label",
                            !.label = Some(formatDays(calc.days))]
    /\ UNCHANGED <<session, form, sent>>

FormatNext == formatDays_call

FormatSpec == FormatInit /\ [][FormatNext]_vars

(* ------------------ from the fetched rule to the payload --------------- *)

\* a decoded body with both blocks enabled, the entry days those of days
SavedInput(address, latitude, longitude, radiusMeters, days) ==
    RawInput(Some(TRUE), None, None, None, None, None,
             Some([entry |->
                       Some(RawScheduleEntry(
                                Some(TRUE),
                                Some(<<"0", "8", ":", "0", "5">>), None, None,
                                None, days)),
                   exit |->
                       Some(RawScheduleEntry(
                                Some(TRUE),
                                Some(<<"1", "7", ":", "3", "0">>), None, None,
                                None, Some(<<Some("sunday")>>)))]),
             Some([address |-> address, latitude |-> latitude,
                   longitude |-> longitude, radiusMeters |-> radiusMeters,
                   radius_meters |-> None]),
             Some(Lima))

\* bodies that differ in the location: the address missing or " Av 1 ", the
\* coordinates null, 0 or set, the radius null, 0, 1 or 150
LocationInputs ==
    {SavedInput(address, latitude, longitude, radiusMeters,
                Some(<<Some("monday")>>)) :
        address \in {None, Some(<<" ", "A", "v", " ", "1", " ">>)},
        latitude \in {None, Some(0), Some(0 - 1204318)},
        longitude \in {None, Some(0 - 7702824)},
        radiusMeters \in {None, Some(0), Some(1), Some(150)}}

\* bodies that differ in the day list of the entry block
SavedDayInputs ==
    {SavedInput(Some(<<"A", "v", " ", "1">>), Some(0 - 1204318),
                Some(0 - 7702824), Some(150), Some(l)) :
        l \in UNION {[1..k -> DayEntries \cup {Some("friday")}] :
                        k \in 0..MaxEntries}}

\* the body is parsed, the rule loaded into the editor, and Save pressed
SaveInit ==
    /\ Quiet
    /\ calc \in [fn : {"submitForm"}, pc : {"data"},
                 data : LocationInputs \cup SavedDayInputs, rule : {None},
                 values : {None}, typed : {FALSE}, payload : {None}]

\* the editor mounts on the rule (AutomationScheduler.tsx 166-200)
toFormValues_call ==
    /\ calc.fn = "submitForm" /\ calc.pc = "rule"
    /\ \E parsed \in ParsedPhones(calc.rule[1]) :
           calc' = [calc EXCEPT
                        !.pc = "values",
                        !.values = Some(toFormValues(calc.rule[1], parsed))]
    /\ UNCHANGED <<session, form, sent>>

\* 1027-1028: the address field is retyped
onAddressChange(value) ==
    /\ calc.fn = "submitForm" /\ calc.pc = "values" /\ ~calc.typed
    /\ calc' = [calc EXCEPT !.typed = TRUE,
                            !.values[1].location.address = value]
    /\ UNCHANGED <<session, form, sent>>

\* the addresses typed into the field
TypedAddresses == {<<" ", "A", "v", " ", "2", " ">>, <<" ", " ">>}

\* Save is pressed on the draft: the payload is built when every rule of the
\* form passes
submitForm_call ==
    /\ calc.fn = "submitForm" /\ calc.pc = "values"
    /\ \E valid \in BOOLEAN, parsed \in E164Answers(calc.values[1]) :
           IF validate(calc.values[1], valid)
               THEN calc' = [calc EXCEPT
                                 !.pc = "payload",
                                 !.payload =
                                     Some(persistPayload(calc.values[1],
                                                         parsed))]
           ELSE calc' = [calc EXCEPT !.pc = "invalid"]
    /\ UNCHANGED <<session, form, sent>>

SaveNext ==
    \/ _parseRule_call
    \/ toFormValues_call
    \/ \E value \in TypedAddresses : onAddressChange(value)
    \/ submitForm_call

SaveSpec == SaveInit /\ [][SaveNext]_vars

(* ------------------------------- claims ------------------------------- *)

Done(t) == task[t].pc = "done"

InAuthorizedFetch(t) == task[t].op = "authorizedFetch"

AuthorizationError == Throw("AuthorizationError")

\* C1: a call of authorizedFetch whose first response is 401 and whose
\* refresh succeeds issues exactly two fetches of the request and one
\* refresh, also after the retry has been answered (with 401 or otherwise);
\* no call issues a third request fetch or a second refresh.
C1_TwoFetchesOneRefresh ==
    \A t \in Tasks :
        InAuthorizedFetch(t) =>
            /\ task[t].nReq <= 2
            /\ task[t].nRefresh <= 1
            /\ (task[t].first = 401 /\ task[t].refresh = "tokens") =>
                   /\ task[t].nReq = 2
                   /\ task[t].nRefresh = 1
                   /\ task[t].pc \in {"retry_fetch", "done"}

\* C1 witness: the retry itself was answered 401 and the call is over
C1_Witness ==
    \E t \in Tasks :
        /\ InAuthorizedFetch(t) /\ Done(t)
        /\ task[t].first = 401 /\ task[t].refresh = "tokens"
        /\ task[t].out = Response(401)
        /\ task[t].nReq = 2 /\ task[t].nRefresh = 1

\* C2: when authorizedFetch gets 401 and refreshSession then returns null,
\* the call fails with AuthorizationError, the request was fetched once
\* only, and no storage record is left.
C2_RefreshFailureClears ==
    \A t \in Tasks :
        (/\ InAuthorizedFetch(t) /\ Done(t)
         /\ task[t].first = 401
         /\ task[t].refresh \in {"notoken", "non2xx"}) =>
            /\ task[t].out = AuthorizationError
            /\ task[t].nReq = 1
            /\ storage = EmptyStorage

\* C2 witness: a call that read a stored session, got 401, and whose
\* refresh was answered non-2xx
C2_Witness ==
    \E t \in Tasks :
        /\ InAuthorizedFetch(t) /\ Done(t)
        /\ task[t].tokens # None
        /\ task[t].first = 401 /\ task[t].refresh = "non2xx"
        /\ task[t].out = AuthorizationError

\* C3 (as claimed): an exhausted retry reaches the caller as
\* AuthorizationError, i.e. no call of authorizedFetch that has retried
\* settles with the 401 response of the retry.
C3_ExhaustedRetryIsAuthorizationError ==
    \A t \in Tasks :
        (/\ InAuthorizedFetch(t) /\ Done(t)
         /\ task[t].first = 401 /\ task[t].refresh = "tokens"
         /\ task[t].nReq = 2) =>
            ~(task[t].out.kind = "response" /\ task[t].out.status = 401)

\* the stored session at instant at is not Expired / is Expired, spelled
\* from the storage record
StoredValid(st, at) ==
    /\ st.raw.kind = "json"
    /\ \/ st.raw.value.expiresAt = None
       \/ at < st.raw.value.expiresAt[1] - 15000

StoredExpired(st, at) ==
    /\ st.raw.kind = "json"
    /\ st.raw.value.expiresAt # None
    /\ at >= st.raw.value.expiresAt[1] - 15000

EnsureCalled(t) == task[t].op = "idle" /\ task'[t].op = "ensureAuthTokens"

\* C4: a call of ensureAuthTokens returns a session without any refresh
\* fetch exactly when a session is stored and the clock is before expiresAt
\* minus 15 s (or expiresAt is unset), and it is then the stored session,
\* the storage being left as it was; when the stored session has reached
\* expiresAt minus 15 s the call issues one refresh fetch with that
\* session's refresh token.
C4_EnsureRefreshesIffExpired ==
    [][\A t \in Tasks :
          EnsureCalled(t) =>
              /\ (/\ task'[t].pc = "done"
                  /\ task'[t].out.kind = "tokens"
                  /\ task'[t].nRefresh = 0) <=> StoredValid(storage, now)
              /\ StoredValid(storage, now) =>
                     /\ task'[t].out = Tokens(storage.raw.value)
                     /\ storage' = storage
              /\ StoredExpired(storage, now) =>
                     /\ task'[t].pc = "rs_fetch"
                     /\ task'[t].nRefresh = 1
                     /\ task'[t].token = Some(storage.raw.value.refreshToken)
      ]_vars

\* C4 witness: the call was made at exactly expiresAt - 15 s (20000 - 15000)
\* and is awaiting its refresh
C4_Witness ==
    \E t \in Tasks :
        /\ task[t].op = "ensureAuthTokens" /\ task[t].pc = "rs_fetch"
        /\ task[t].tokens # None
        /\ task[t].tokens[1].expiresAt = Some(20000)
        /\ now = 5000

EnsureDone(t) == task[t].op = "ensureAuthTokens" /\ Done(t)

\* C5 (as claimed): whenever the refresh ensureAuthTokens needed did not
\* succeed, the call fails with AuthorizationError and no storage record is
\* left.
C5_AnyRefreshFailure ==
    \A t \in Tasks :
        (EnsureDone(t) /\ task[t].refresh \in {"notoken", "non2xx", "rejected"})
            => /\ task[t].out = AuthorizationError
               /\ storage = EmptyStorage

\* C5 (amended): when refreshSession returned null (no token, or a non-2xx
\* answer) the call fails with AuthorizationError and no storage record is
\* left; when the refresh fetch was rejected at network level the rejection
\* is what the call fails with and the stored session stays; in neither case
\* does the call return a session.
C5_NullRefreshFailure ==
    \A t \in Tasks :
        EnsureDone(t) =>
            /\ task[t].refresh \in {"notoken", "non2xx"} =>
                   /\ task[t].out = AuthorizationError
                   /\ storage = EmptyStorage
            /\ task[t].refresh = "rejected" =>
                   /\ task[t].out = Throw("TypeError")
                   /\ storage.raw = JsonStringify(task[t].tokens[1])
            /\ task[t].refresh \in {"notoken", "non2xx", "rejected"} =>
                   task[t].out.kind = "throw"

\* C5 witness: the stored session was expired and its refresh was answered
\* non-2xx
C5_Witness ==
    \E t \in Tasks :
        /\ EnsureDone(t)
        /\ task[t].tokens # None
        /\ task[t].refresh = "non2xx"
        /\ task[t].out = AuthorizationError

RefreshDone(t) == task[t].op = "refreshSession" /\ Done(t)

\* the three storage records hold session s
Holds(st, s) ==
    /\ st.raw = [kind |-> "json", value |-> s]
    /\ st.authToken = Some(s.accessToken)
    /\ st.refreshToken = Some(s.refreshToken)

\* C6: refreshSession returns null, without throwing, when it has no refresh
\* token (then no fetch was issued) or when the endpoint answers non-2xx, and
\* no storage record is left in either case; on a 2xx answer it returns the
\* new session, which is what the storage then holds in place of the old
\* one; it throws only when its fetch is rejected.
C6_RefreshSessionOutcome ==
    \A t \in Tasks :
        RefreshDone(t) =>
            /\ task[t].refresh \in {"notoken", "non2xx", "tokens", "rejected"}
            /\ task[t].refresh = "notoken" =>
                   task[t].nRefresh = 0 /\ task[t].token = None
            /\ task[t].refresh \in {"notoken", "non2xx"} =>
                   task[t].out = Null /\ storage = EmptyStorage
            /\ task[t].refresh = "tokens" =>
                   /\ task[t].out.kind = "tokens"
                   /\ Holds(storage, task[t].out.session[1])
                   /\ task[t].token # Some(task[t].out.session[1].refreshToken)
            /\ task[t].out.kind = "throw" => task[t].refresh = "rejected"

\* C6 witness: a refresh token was sent and the endpoint answered non-2xx
C6_Witness ==
    \E t \in Tasks :
        /\ RefreshDone(t)
        /\ task[t].token # None
        /\ task[t].refresh = "non2xx"
        /\ task[t].out = Null

\* C7 (as claimed): every session persisted by authenticate or
\* refreshSession has expiresAt = 1000 * exp when its access token's payload
\* decodes to an object with a numeric exp, and expiresAt unset otherwise.
C7_ExpiresAtIsExpTimes1000 ==
    \A t \in Tasks :
        (/\ Done(t)
         /\ task[t].op \in {"authenticate", "refreshSession"}
         /\ task[t].out.kind = "tokens") =>
            LET s == task[t].out.session[1]
                seg == s.accessToken.seg
            IN  /\ Holds(storage, s)
                /\ IF seg.enc = "json" /\ seg.exp # None
                       THEN s.expiresAt = Some(1000 * seg.exp[1])
                       ELSE s.expiresAt = None

\* C8: of two calls of authorizedFetch in flight, each one that got 401 has
\* issued its own refresh, with the refresh token of the session it read when
\* it started, and each issues at most one refresh and at most two request
\* fetches (two exactly once its refresh has succeeded).
C8_IndependentRefresh ==
    \A t \in Tasks :
        InAuthorizedFetch(t) =>
            /\ task[t].nRefresh <= 1
            /\ task[t].nReq <= 2
            /\ task[t].first = 401 =>
                   /\ task[t].nRefresh = 1
                   /\ task[t].token = Some(task[t].tokens[1].refreshToken)
            /\ task[t].refresh = "tokens" => task[t].nReq = 2

\* C8 witness: both calls got 401 and both refreshes are in flight together,
\* each with a different refresh token
C8_Witness ==
    /\ \A t \in Tasks :
           /\ InAuthorizedFetch(t)
           /\ task[t].first = 401
           /\ task[t].pc = "rs_fetch"
    /\ task[1].token # task[2].token

\* C9: the step that completes logout, whatever the request's outcome and
\* whatever other calls are in flight, leaves no storage record, and logout
\* settles without an error.
C9_LogoutClears ==
    [][\A t \in Tasks :
          (/\ task[t].pc # "done"
           /\ task'[t].pc = "done"
           /\ task'[t].op = "logout") =>
              /\ task'[t].out = Void
              /\ storage' = EmptyStorage
      ]_vars

\* C9 witness: logout completed after its request got 401 and the refresh
\* fetch was rejected at network level
C9_Witness ==
    \E t \in Tasks :
        /\ task[t].op = "logout" /\ Done(t)
        /\ task[t].first = 401
        /\ task[t].refresh = "rejected"
        /\ storage = EmptyStorage

\* C10: a call of getStoredTokens that met an undecodable session record
\* returns null, raises nothing, and leaves none of the three records.
C10_CorruptIsNoSession ==
    \A t \in Tasks :
        (task[t].op = "getStoredTokens" /\ Done(t) /\ task[t].caught) =>
            /\ task[t].out = Null
            /\ storage = EmptyStorage

\* C10 witness: getStoredTokens has run on an undecodable record
C10_Witness ==
    \E t \in Tasks :
        task[t].op = "getStoredTokens" /\ Done(t) /\ task[t].caught

(* ---------------- claims on the gateway and the rule ----------------- *)

\* the Session Manager raised AuthorizationError in task t: a refresh it
\* needed came back null (auth.ts 136-140, 148-153, 196-199)
Raised(t) == task[t].refresh \in {"notoken", "non2xx"}

\* the loader has returned data to render
Rendered ==
    /\ task[Loader].op = "automationLoader"
    /\ Done(Loader)
    /\ task[Loader].out.kind = "data"

\* C11: when the Session Manager raises AuthorizationError while the
\* console's data is loaded, in requireAuthTokens or in the authorized fetch
\* of the rule, of the timezones or of the credentials, the loader redirects
\* to the login view: it never returns data to render.
C11_AuthorizationErrorRedirects ==
    /\ Rendered => \A t \in {Loader} \cup Children : ~Raised(t)
    /\ (task[Loader].op = "automationLoader" /\ Done(Loader)
           /\ Raised(Loader)) =>
               task[Loader].out = Throw("redirect")

\* the part of C11 that the loader keeps: AuthorizationError of
\* requireAuthTokens or of the fetch of the credentials
C11_ExceptSwallowed ==
    /\ Rendered => \A t \in {Loader, 5} : ~Raised(t)
    /\ (task[Loader].op = "automationLoader" /\ Done(Loader)
           /\ Raised(Loader)) =>
               task[Loader].out = Throw("redirect")

\* the message handleJson derives from a body text (part_004 259)
MessageOf(text) == IF text # "" THEN text ELSE "Error en la solicitud"

\* task t has completed the operation op, the gateway's last answer being
\* non-2xx
NonOkAnswered(t, op) ==
    /\ task[t].op = op
    /\ Done(t)
    /\ task[t].response # 0
    /\ ~Ok(task[t].response)

\* the operation of task t failed with an Error made from the body text, and
\* sent its request once, or twice when the first answer was 401
Surfaced(t) ==
    /\ task[t].out.kind = "throw"
    /\ task[t].out.err = "Error"
    /\ task[t].out.message = Some(MessageOf(task[t].text[1]))
    /\ task[t].nReq = IF task[t].first = 401 THEN 2 ELSE 1

\* C12: get rule, timezones, save rule and immediate mark each surface a
\* non-2xx answer (other than a 401 that was handled by refresh and retry)
\* as an error whose message comes from the body text, and do not retry.
C12_NonOkSurfaced ==
    \A op \in {"fetchAutomationRule", "fetchAvailableTimezones",
               "saveAutomationRule", "markAutomationNow"} :
        NonOkAnswered(Loader, op) => Surfaced(Loader)

\* the part of C12 that holds: save rule and immediate mark
C12_SaveAndMarkSurfaced ==
    \A op \in {"saveAutomationRule", "markAutomationNow"} :
        NonOkAnswered(Loader, op) => Surfaced(Loader)

\* a save was answered 401, refreshed, retried, answered 500 and failed
C12_SaveAndMarkReached ==
    /\ NonOkAnswered(Loader, "saveAutomationRule")
    /\ task[Loader].first = 401
    /\ task[Loader].response = 500
    /\ task[Loader].out.message = Some("Service Unavailable")

\* a block of a draft that is enabled has an HH:MM local time
TimedIfEnabled(block) ==
    block.habilitado => trim(block.hora_local) \in ValidTimes

\* none of the defects the claim lists is in the draft
Sendable(values) ==
    /\ TimedIfEnabled(values.entry)
    /\ TimedIfEnabled(values.exit)
    /\ values.location.lat # None
    /\ values.location.lng # None
    /\ values.location.radius # None
    /\ values.location.radius[1] > 0
    /\ values.randomWindowMinutes # None =>
           values.randomWindowMinutes[1] >= 0
    /\ values.timezone # <<>>

\* C13: onSave is handed a payload only for a draft in which every enabled
\* block has an HH:MM local time, latitude and longitude are set, the radius
\* is set and above 0, the random window is not negative and the timezone is
\* not empty; for any other draft handleSave invokes nothing.
C13_InvalidDraftNotSent ==
    /\ sent # None =>
           /\ Sendable(sent[1].values)
           /\ form.isSaving
    /\ (Mounted /\ ~form.isSaving) => sent = None

\* C13 witness: the timezone was retyped, Save was pressed, and the payload
\* of the draft is with onSave
C13_Witness ==
    /\ Mounted
    /\ sent # None
    /\ form.isSaving /\ form.showValidation
    /\ sent[1].values = form.values
    /\ form.values.timezone = Kolkata
    /\ sent[1].payload.timezone = Kolkata

\* C14: the payload block of a block that is not enabled is
\* {enabled: false, localTime: null, utcTime: null, days: []}, whatever local
\* time, UTC time and days the draft still holds for it.
C14_DisabledBlockIsEmpty ==
    (/\ calc.fn = "toPersistedBlock" /\ calc.pc = "persisted"
     /\ ~calc.block.habilitado) =>
        calc.persisted[1] =
            [enabled |-> FALSE, localTime |-> None, utcTime |-> None,
             days |-> <<>>]

\* C14 witness: a disabled block that still holds "08:05", a UTC time and
\* two days has been translated
C14_Witness ==
    /\ calc.fn = "toPersistedBlock" /\ calc.pc = "persisted"
    /\ ~calc.block.habilitado
    /\ calc.block.hora_local = <<"0", "8", ":", "0", "5">>
    /\ calc.block.hora_utc # None
    /\ Len(calc.block.dias) = 2
    /\ ~calc.persisted[1].enabled

\* the minutes after midnight of an "HH:MM" time
MinutesOf(t) ==
    CHOOSE n \in 0..1439 : t = Time(n \div 60, n % 60)

\* C15: the payload block of an enabled block lists the ISO names of the
\* block's weekday keys once each, Monday to Sunday; its utcTime is
\* toUtcTime(trimmed local time, extractOffsetMinutes(timezone)), that is the
\* local time moved back by the offset, and is null exactly when the trimmed
\* local time is empty or not an HH:MM time; the UTC time the block had is
\* not what the payload carries.
C15_EnabledBlockPayload ==
    (/\ calc.fn = "toPersistedBlock" /\ calc.pc = "persisted"
     /\ calc.block.habilitado) =>
        LET block == calc.block
            out == calc.persisted[1]
            local == trim(block.hora_local)
            offset == extractOffsetMinutes(calc.timezone)
            names == SelectSeq(out.days, LAMBDA d : d # None)
        IN  /\ out.enabled
            /\ Len(out.days) = Len(block.dias)
            /\ \A i, j \in 1..Len(names) :
                   i < j => indexOf(IsoDays, names[i][1])
                                < indexOf(IsoDays, names[j][1])
            /\ {names[i][1] : i \in 1..Len(names)} =
                   {IsoDays[k] : k \in {n \in 1..7 :
                        \E i \in 1..Len(block.dias) : block.dias[i] = DAYS[n]}}
            /\ out.utcTime = toUtcTime(local, offset)
            /\ out.utcTime = None <=> local \notin ValidTimes
            /\ local \in ValidTimes =>
                   out.utcTime =
                       Some(Time(((MinutesOf(local) - offset) % 1440) \div 60,
                                 ((MinutesOf(local) - offset) % 1440) % 60))

\* C15 witness: an enabled block with the days out of order, a local time
\* that is not a time and a stored UTC time has been translated
C15_Witness ==
    /\ calc.fn = "toPersistedBlock" /\ calc.pc = "persisted"
    /\ calc.block.habilitado
    /\ calc.block.dias = <<"Vie", "Lun">>
    /\ calc.block.hora_local = <<"2", "4", ":", "0", "0">>
    /\ calc.block.hora_utc # None
    /\ calc.persisted[1].days = <<Some("monday"), Some("friday")>>
    /\ calc.persisted[1].utcTime = None

\* the values of a list
Range(xs) == {xs[i] : i \in 1..Len(xs)}

\* a block that is enabled, with an HH:MM local time and weekday keys as days
WellFormed(block) ==
    /\ block.habilitado
    /\ block.hora_local \in ValidTimes
    /\ Range(block.dias) \subseteq Range(DAYS)

\* the parsed block has the flag, the local time and the day set of the draft
SameBlock(parsed, block) ==
    /\ parsed.habilitado = block.habilitado
    /\ parsed.hora_local = Some(block.hora_local)
    /\ Range(parsed.dias) = Range(block.dias)

\* C16: when both blocks of a rule are enabled, with HH:MM local times and
\* weekday keys as days, _parseRule on the payload of the save translation
\* gives blocks with the same enabled flags, local times and day sets.
C16_TranslationRoundTrip ==
    (/\ calc.fn = "persistPayload" /\ calc.pc = "rule"
     /\ WellFormed(calc.values.entry) /\ WellFormed(calc.values.exit)) =>
        /\ SameBlock(calc.rule[1].entrada, calc.values.entry)
        /\ SameBlock(calc.rule[1].salida, calc.values.exit)

\* C16 witness: a rule whose entry days are Friday, Monday and whose exit
\* days are Sunday, Saturday has been translated and parsed back
C16_Witness ==
    /\ calc.fn = "persistPayload" /\ calc.pc = "rule"
    /\ WellFormed(calc.values.entry) /\ WellFormed(calc.values.exit)
    /\ calc.values.entry.dias = <<"Vie", "Lun">>
    /\ calc.values.exit.dias = <<"Dom", "Sab">>
    /\ calc.rule[1].entrada.dias = <<"Lun", "Vie">>
    /\ calc.rule[1].salida.dias = <<"Sab", "Dom">>

\* the value of a field with two spellings: the camelCase one when it is
\* there, else the snake_case one, else none
Resolved(camel, snake) == IF camel # None THEN camel ELSE snake

\* the entry block, the exit block and the location of a decoded body, empty
\* where the body has none
EntryOf(data) ==
    IF data.schedule = None \/ data.schedule[1].entry = None THEN EmptyEntry
    ELSE data.schedule[1].entry[1]

ExitOf(data) ==
    IF data.schedule = None \/ data.schedule[1].exit = None THEN EmptyEntry
    ELSE data.schedule[1].exit[1]

LocationOf(data) ==
    IF data.location = None THEN EmptyLocation ELSE data.location[1]

\* block b is what the resolution order gives for the raw entry e
ResolvedBlock(e, b) ==
    /\ b.habilitado = (e.enabled = Some(TRUE))
    /\ b.hora_local = normalizeTime(Resolved(e.localTime, e.local_time))
    /\ b.hora_utc = normalizeTime(Resolved(e.utcTime, e.utc_time))
    /\ e.days = None => b.dias = <<>>
    /\ (e.localTime # None /\ e.local_time # None) =>
           b.hora_local = normalizeTime(e.localTime)
    /\ (e.localTime = None /\ e.local_time = None) => b.hora_local = None

\* C17: _parseRule takes each field that has two spellings (localTime,
\* utcTime, isActive, randomWindowMinutes, phoneNumber, radiusMeters) from
\* the camelCase spelling when it is there, also when the snake_case one is
\* there too, else from the snake_case spelling, else gives the default:
\* false for a flag, null for an optional value, the empty list for days;
\* times and the phone number are normalized after the choice.
C17_CamelCaseFirst ==
    (calc.fn = "_parseRule" /\ calc.pc = "rule") =>
        LET data == calc.data
            rule == calc.rule[1]
        IN  /\ rule.activo = (Resolved(data.isActive, data.is_active)
                                  = Some(TRUE))
            /\ rule.ventana_aleatoria_minutos =
                   Resolved(data.randomWindowMinutes,
                            data.random_window_minutes)
            /\ rule.telefono =
                   normalizePhoneNumber(Resolved(data.phoneNumber,
                                                 data.phone_number))
            /\ rule.ubicacion.radio_metros =
                   Resolved(LocationOf(data).radiusMeters,
                            LocationOf(data).radius_meters)
            /\ ResolvedBlock(EntryOf(data), rule.entrada)
            /\ ResolvedBlock(ExitOf(data), rule.salida)

\* C17 witness: a body with isActive false and is_active true, and with both
\* spellings of the entry's local time, has been parsed
C17_Witness ==
    /\ calc.fn = "_parseRule" /\ calc.pc = "rule"
    /\ calc.data.isActive = Some(FALSE) /\ calc.data.is_active = Some(TRUE)
    /\ EntryOf(calc.data).localTime = Some(WithSeconds)
    /\ EntryOf(calc.data).local_time = Some(Padded)
    /\ ~calc.rule[1].activo
    /\ calc.rule[1].entrada.hora_local = Some(<<"0", "8", ":", "0", "5">>)

\* what a day entry stands for: the weekday key of an ISO name, else the
\* entry itself
Mapped(entry) ==
    IF entry # None /\ \E k \in 1..7 : IsoDays[k] = entry[1]
        THEN Some(DAYS[CHOOSE k \in 1..7 : IsoDays[k] = entry[1]])
    ELSE entry

\* the day list handed to normalizeDays for the entry block
DayList == EntryOf(calc.data).days

NoDuplicates(xs) == \A i, j \in 1..Len(xs) : i # j => xs[i] # xs[j]

Parsed == calc.fn = "_parseRule" /\ calc.pc = "rule"

\* the claim read on every entry of the list, null and blank ones too: the
\* days of the parsed block are, without duplicates, the weekday keys of the
\* ISO names of the list and every other entry unchanged
C18_EveryEntryPasses ==
    (Parsed /\ DayList # None) =>
        LET dias == calc.rule[1].entrada.dias IN
        /\ NoDuplicates(dias)
        /\ {Some(dias[i]) : i \in 1..Len(dias)} =
               {Mapped(DayList[1][i]) : i \in 1..Len(DayList[1])}

\* C18 (as claimed, a value being a string that is not blank): the days of
\* the parsed block are, without duplicates, the weekday keys of the ISO
\* names of the list and every other value of the list, unchanged.
C18_EveryValuePasses ==
    (Parsed /\ DayList # None) =>
        LET dias == calc.rule[1].entrada.dias IN
        /\ NoDuplicates(dias)
        /\ {Some(dias[i]) : i \in 1..Len(dias)} =
               {Mapped(DayList[1][i]) : i \in 1..Len(DayList[1])}
                   \ {None, Some(""), Some(" ")}

\* C18 without the names of inherited members: the claim holds of the lists
\* in which no value is such a name
C18_OwnNamesPass ==
    (/\ Parsed /\ DayList # None
     /\ \A i \in 1..Len(DayList[1]) :
            DayList[1][i] = None \/ ObjectPrototype(DayList[1][i][1]) = None) =>
        LET dias == calc.rule[1].entrada.dias IN
        /\ NoDuplicates(dias)
        /\ {Some(dias[i]) : i \in 1..Len(dias)} =
               {Mapped(DayList[1][i]) : i \in 1..Len(DayList[1])}
                   \ {None, Some(""), Some(" ")}

\* "monday", null and "Lun" have been parsed to the one day Lun
C18_OwnNamesReached ==
    /\ Parsed
    /\ DayList = Some(<<Some("monday"), None, Some("Lun")>>)
    /\ calc.rule[1].entrada.dias = <<"Lun">>

\* the phone number of the decoded body (camelCase spelling)
Phone == calc.data.phoneNumber

\* C19 (as claimed): for every national number d of eight or nine digits both
\* d and "51" followed by d are parsed to "+51" followed by d; an empty or
\* missing number is parsed to null; and normalizePhoneNumber leaves every
\* number it returned as it is.
C19_PhoneCanonical ==
    (Parsed /\ calc.data.phone_number = None) =>
        LET telefono == calc.rule[1].telefono IN
        /\ (Phone # None /\ Phone[1] \in NationalNumbers) =>
               telefono = Some(<<"+", "5", "1">> \o Phone[1])
        /\ (/\ Phone # None
            /\ startsWith(Phone[1], <<"5", "1">>)
            /\ slice(Phone[1], 2) \in NationalNumbers) =>
               telefono = Some(<<"+">> \o Phone[1])
        /\ (Phone = None \/ Phone = Some(<<>>)) => telefono = None
        /\ telefono # None => normalizePhoneNumber(telefono) = telefono

\* C19 without the national numbers that themselves begin with 51
C19_ExceptArea51 ==
    (Parsed /\ calc.data.phone_number = None) =>
        LET telefono == calc.rule[1].telefono IN
        /\ (/\ Phone # None /\ Phone[1] \in NationalNumbers
            /\ ~startsWith(Phone[1], <<"5", "1">>)) =>
               telefono = Some(<<"+", "5", "1">> \o Phone[1])
        /\ (/\ Phone # None
            /\ startsWith(Phone[1], <<"5", "1">>)
            /\ slice(Phone[1], 2) \in NationalNumbers) =>
               telefono = Some(<<"+">> \o Phone[1])
        /\ (Phone = None \/ Phone = Some(<<>>)) => telefono = None
        /\ telefono # None => normalizePhoneNumber(telefono) = telefono

\* C20: for every "HH:MM" time t and offset o, toUtcTime(toUtcTime(t, o), -o)
\* is t, the first conversion never being null; toUtcTime("08:05", -300) is
\* "13:05" and toUtcTime("00:10", -300) is "05:10".
C20_UtcRoundTrip ==
    (calc.fn = "toUtcTime" /\ calc.time \in ValidTimes) =>
        /\ calc.pc # "time" => calc.utc # None
        /\ calc.pc = "local" => calc.local = Some(calc.time)
        /\ (calc.pc # "time" /\ calc.offsetMinutes = 0 - 300) =>
               /\ calc.time = <<"0", "8", ":", "0", "5">> =>
                      calc.utc = Some(<<"1", "3", ":", "0", "5">>)
               /\ calc.time = <<"0", "0", ":", "1", "0">> =>
                      calc.utc = Some(<<"0", "5", ":", "1", "0">>)

\* C20 witness: "00:10" at offset +330 is "18:40" of the day before, and has
\* been converted back
C20_Witness ==
    /\ calc.fn = "toUtcTime" /\ calc.pc = "local"
    /\ calc.time = <<"0", "0", ":", "1", "0">>
    /\ calc.offsetMinutes = 330
    /\ calc.utc = Some(<<"1", "8", ":", "4", "0">>)
    /\ calc.local = Some(calc.time)

\* the minutes since midnight of the "HH:MM" time v
SinceMidnight(v) ==
    (10 * DigitValue(v[1]) + DigitValue(v[2])) * 60
        + 10 * DigitValue(v[4]) + DigitValue(v[5])

\* time without the blank it may start with and the blank it may end with
Unblanked(time) ==
    LET a == IF Len(time) > 0 /\ time[1] = " " THEN 1 ELSE 0
        b == IF Len(time) > a /\ time[Len(time)] = " " THEN 1 ELSE 0
    IN  SubSeq(time, a + 1, Len(time) - b)

\* the 24-hour "HH:MM" time that time is, a blank before and after it aside
TimesIn(time) ==
    IF Unblanked(time) \in ValidTimes THEN {Unblanked(time)} ELSE {}

\* C21: toUtcTime returns null exactly when its time, trimmed, is no 24-hour
\* HH:MM time; otherwise it returns, zero-padded, the time of day that is the
\* local minutes less the offset reduced into 0..1439, whatever the sign and
\* the size of the offset, and that result is itself a 24-hour HH:MM time.
C21_UtcTimeOrNull ==
    (calc.fn = "toUtcTime" /\ calc.pc # "time") =>
        /\ calc.utc = None <=> TimesIn(calc.time) = {}
        /\ \A v \in TimesIn(calc.time) :
               LET reduced == (SinceMidnight(v) - calc.offsetMinutes) % 1440
               IN  /\ calc.utc = Some(Time(reduced \div 60, reduced % 60))
                   /\ calc.utc[1] \in ValidTimes
        /\ calc.time \in {<<"2", "4", ":", "0", "0">>, <<"8", ":", "0", "5">>,
                          <<"0", "8", ":", "6", "0">>, <<>>} =>
               calc.utc = None

\* C21 witness: " 08:05 " at offset +3000 is "06:05", two days back
C21_Witness ==
    /\ calc.fn = "toUtcTime" /\ calc.pc = "utc"
    /\ calc.time = <<" ", "0", "8", ":", "0", "5", " ">>
    /\ calc.offsetMinutes = 3000
    /\ calc.utc = Some(<<"0", "6", ":", "0", "5">>)

\* C22: extractOffsetMinutes returns the signed minutes of the first
\* "UTC+HH:MM" or "UTC-HH:MM" of the label, the sign applying to hours and
\* minutes alike ("UTC-05:30" gives -330, "UTC-00:30" gives -30), and 0 for
\* an absent label or a label with no such part.
C22_SignedOffset ==
    (calc.fn = "extractOffsetMinutes" /\ calc.pc = "offset") =>
        /\ calc.offset = Some(calc.encoded)
        /\ calc.timezone = Lima => calc.offset = Some(0 - 300)
        /\ calc.timezone = <<"U", "T", "C", "-", "0", "5", ":", "3", "0">> =>
               calc.offset = Some(0 - 330)
        /\ calc.timezone = <<"U", "T", "C", "-", "0", "0", ":", "3", "0">> =>
               calc.offset = Some(0 - 30)
        /\ calc.timezone \in Unlabelled => calc.offset = Some(0)

\* C22 witness: "GMT UTC-00:30, UTC+01:00" has been read as -30
C22_Witness ==
    /\ calc.fn = "extractOffsetMinutes" /\ calc.pc = "offset"
    /\ calc.timezone =
           Label(<<"G", "M", "T", " ">>, "-", 0, 30,
                 <<",", " ", "U", "T", "C", "+", "0", "1", ":", "0", "0">>)
    /\ calc.offset = Some(0 - 30)

\* the weekday keys of a list
KeysOf(days) == {days[i] : i \in 1..Len(days)}

\* the weekday keys of a list in Monday-to-Sunday order
Canonical(days) ==
    LET keys == {k \in 1..7 : DAYS[k] \in KeysOf(days)} IN
    [i \in 1..Cardinality(keys) |->
        DAYS[CHOOSE k \in keys : Cardinality({j \in keys : j < k}) = i - 1]]

\* the label the claim gives to a list of weekday keys
Labelled(days) ==
    IF days = <<>> THEN <<"-">>
    ELSE IF KeysOf(days) = KeysOf(DAYS) THEN <<"Lun-Dom">>
    ELSE IF KeysOf(days) = {"Lun", "Mar", "Mie", "Jue", "Vie"}
        THEN <<"Lun-Vie">>
    ELSE IF KeysOf(days) = {"Sab", "Dom"} THEN <<"Fin de semana">>
    ELSE join(Canonical(days))

\* C23: formatDays gives the dash for the empty list, "Lun-Dom" only when all
\* seven weekday keys are in the list, "Lun-Vie" only for exactly the five
\* weekdays, "Fin de semana" only for exactly Sab and Dom, and for every
\* other list its keys joined by commas in Monday-to-Sunday order, whatever
\* the order of the list.
C23_LabelOfDays ==
    (calc.fn = "formatDays" /\ calc.pc = "label") =>
        /\ calc.label = Some(<<"Lun-Dom">>) =>
               KeysOf(DAYS) \subseteq KeysOf(calc.days)
        /\ calc.label = Some(<<"Lun-Vie">>) =>
               KeysOf(calc.days) = {"Lun", "Mar", "Mie", "Jue", "Vie"}
        /\ calc.label = Some(<<"Fin de semana">>) =>
               KeysOf(calc.days) = {"Sab", "Dom"}
        /\ KeysOf(calc.days) \subseteq KeysOf(DAYS) =>
               calc.label = Some(Labelled(calc.days))

\* the part of C23 that holds: lists of weekday keys that are in
\* Monday-to-Sunday order
C23_OrderedLists ==
    (/\ calc.fn = "formatDays" /\ calc.pc = "label"
     /\ calc.days = Canonical(calc.days)) =>
        calc.label = Some(Labelled(calc.days))

\* Sab, Dom in either order have been labelled "Fin de semana"
C23_OrderedReached ==
    /\ calc.fn = "formatDays" /\ calc.pc = "label"
    /\ calc.days = <<"Dom", "Sab">>
    /\ calc.label = Some(<<"Fin de semana">>)

\* a payload has been built from the fetched rule
Saved == calc.fn = "submitForm" /\ calc.pc = "payload"

\* the address of the payload is that of the draft, trimmed: the address of
\* the rule, itself trimmed by the parser, or the one typed since
AddressTrimmed ==
    /\ calc.payload[1].location.address =
           trim(calc.values[1].location.address)
    /\ ~calc.typed =>
           calc.payload[1].location.address =
               trim(IF calc.data.location[1].address = None THEN <<>>
                    ELSE calc.data.location[1].address[1])

\* C24 (as claimed): the latitude, the longitude and the radius of the saved
\* payload are those of the fetched rule, null for null and the same number
\* for a number, and its address is the rule's address trimmed.
C24_LocationPassesThrough ==
    Saved =>
        /\ calc.payload[1].location.latitude = calc.rule[1].ubicacion.lat
        /\ calc.payload[1].location.longitude = calc.rule[1].ubicacion.lng
        /\ calc.payload[1].location.radiusMeters =
               calc.rule[1].ubicacion.radio_metros
        /\ AddressTrimmed

\* C24 (amended): the payload has the latitude, the longitude and the radius
\* of the draft, and the draft has those of the fetched rule except that a
\* rule without radius is loaded with radius 100; a draft with a null
\* coordinate or radius is not saved; the address is emitted trimmed.
C24_RadiusDefaulted ==
    /\ (calc.fn = "submitForm" /\ calc.values # None) =>
           /\ calc.values[1].location.lat = calc.rule[1].ubicacion.lat
           /\ calc.values[1].location.lng = calc.rule[1].ubicacion.lng
           /\ calc.values[1].location.radius =
                  IF calc.rule[1].ubicacion.radio_metros = None
                      THEN Some(100)
                  ELSE calc.rule[1].ubicacion.radio_metros
    /\ Saved =>
           /\ calc.payload[1].location.latitude = calc.values[1].location.lat
           /\ calc.payload[1].location.longitude =
                  calc.values[1].location.lng
           /\ calc.payload[1].location.radiusMeters =
                  calc.values[1].location.radius
           /\ calc.payload[1].location.latitude # None
           /\ calc.payload[1].location.longitude # None
           /\ calc.payload[1].location.radiusMeters # None
           /\ AddressTrimmed

\* C24 witness: a rule with latitude 0 and no radius, its address retyped
\* as " Av 2 ", has been saved with latitude 0, radius 100 and the address
\* "Av 2"
C24_Witness ==
    /\ Saved
    /\ calc.rule[1].ubicacion.lat = Some(0)
    /\ calc.rule[1].ubicacion.radio_metros = None
    /\ calc.values[1].location.address = <<" ", "A", "v", " ", "2", " ">>
    /\ calc.payload[1].location.latitude = Some(0)
    /\ calc.payload[1].location.radiusMeters = Some(100)
    /\ calc.payload[1].location.address = <<"A", "v", " ", "2">>

\* the session record and the two flat records agree: all absent, or all
\* present with the flat records the tokens of the session record
Agree(st) ==
    \/ st = EmptyStorage
    \/ /\ st.raw.kind = "json"
       /\ st.authToken = Some(st.raw.value.accessToken)
       /\ st.refreshToken = Some(st.raw.value.refreshToken)

\* C25: after any interleaving of authenticate, refreshSession,
\* ensureAuthTokens, authorizedFetch, logout and clearTokens the session
\* record, the flat access-token record and the flat refresh-token record
\* agree: all three absent, or all three present with the flat records the
\* accessToken and refreshToken of the session record.  (A session record
\* left undecodable by an earlier page is the one state the calls do not
\* produce; the first read of it clears all three.)
C25_RecordsAgree == storage.raw.kind # "corrupt" => Agree(storage)

\* C25 witness: a refreshed session is stored, all three records present and
\* in agreement, while another call is still in flight
C25_Witness ==
    /\ storage.raw.kind = "json"
    /\ storage.raw.value.refreshToken > 0
    /\ storage.authToken = Some(storage.raw.value.accessToken)
    /\ storage.refreshToken = Some(storage.raw.value.refreshToken)
    /\ \E t, u \in Tasks :
           /\ t # u
           /\ task[t].refresh = "tokens"
           /\ task[u].pc \notin {"idle", "done"}

\* C26: a call of authorizedFetch made while the stored session is Expired
\* (the clock at or past expiresAt minus 15 s) does not send its first
\* request with the access token of that session: it refreshes first, as
\* ensureAuthTokens does.
C26_FirstRequestNotExpired ==
    [][\A t \in Tasks :
          (/\ task[t].op = "idle"
           /\ task'[t].op = "authorizedFetch"
           /\ StoredExpired(storage, now)) =>
              ~(/\ task'[t].pc = "req_fetch"
                /\ task'[t].nRefresh = 0
                /\ task'[t].auth = AuthHeader(storage.raw.value))]_vars

\* task t is called with op in this step
Called(t, op) == task[t].op = "idle" /\ task'[t].op = op

\* the first half of C27: called with no stored session, ensureAuthTokens
\* and authorizedFetch issue no fetch at all, neither a refresh nor the
\* request, and fail at once with AuthorizationError, the storage staying
\* empty
NoSessionNoFetch(t) ==
    (/\ storage = EmptyStorage
     /\ \/ Called(t, "ensureAuthTokens")
        \/ Called(t, "authorizedFetch")) =>
        /\ task'[t].pc = "done"
        /\ task'[t].out = AuthorizationError
        /\ task'[t].nReq = 0
        /\ task'[t].nRefresh = 0
        /\ task'[t].refresh = "notoken"
        /\ storage' = EmptyStorage

\* C27: called with no stored session, ensureAuthTokens and authorizedFetch
\* issue no fetch and fail with AuthorizationError, the storage staying
\* empty; and the only step that takes the storage from empty to a stored
\* session is the one in which an authenticate persists the answer of its
\* login.
C27_SessionOnlyByAuthenticate ==
    [][/\ \A t \in Tasks : NoSessionNoFetch(t)
       /\ (storage = EmptyStorage /\ storage' # EmptyStorage) =>
              \E t \in Tasks :
                  /\ task[t].op = "authenticate"
                  /\ task[t].pc = "login_json"
                  /\ task'[t].pc = "done"]_vars

\* the first half of C27 alone, which holds also of overlapping calls
C27_NoSessionNoFetch == [][\A t \in Tasks : NoSessionNoFetch(t)]_vars

\* authorizedFetch, called with nothing stored, has failed with
\* AuthorizationError without a fetch, and nothing is stored
C27_NoFetchReached ==
    /\ storage = EmptyStorage
    /\ \E t \in Tasks :
           /\ task[t].op = "authorizedFetch"
           /\ task[t].pc = "done"
           /\ task[t].out = AuthorizationError
           /\ task[t].nReq = 0
           /\ task[t].nRefresh = 0
           /\ ~task[t].caught

\* C28: once a logout has completed, no session is stored until an
\* authenticate succeeds: while the completed logout is there, the only step
\* that stores a session is the one persisting the answer of a login, also
\* when an authorizedFetch or refreshSession was in flight at the logout and
\* completes after it.
C28_LoggedOutUntilLogin ==
    [][(/\ \E t \in Tasks : task[t].op = "logout" /\ Done(t)
        /\ storage.raw = Absent
        /\ storage'.raw # Absent) =>
           \E u \in Tasks :
               /\ task[u].op = "authenticate"
               /\ task[u].pc = "login_json"
               /\ Done(u)']_vars

\* C29: when two calls of authorizedFetch have both been answered 401 and
\* the refresh of one has succeeded and been persisted, the refresh of the
\* other, made with the older refresh token and answered non-2xx, does not
\* remove the newer stored session: the storage is not left empty.
C29_NewerSessionKept ==
    [][\A t, u \in Tasks :
          (/\ t # u
           /\ InAuthorizedFetch(t) /\ InAuthorizedFetch(u)
           /\ task[t].first = 401 /\ task[u].first = 401
           /\ task[u].refresh = "tokens"
           /\ task[t].pc = "rs_fetch"
           /\ task'[t].refresh = "non2xx"
           /\ storage.raw.kind = "json"
           /\ storage.raw.value.refreshToken > task[t].token[1]) =>
              storage' # EmptyStorage]_vars

\* the position of an ISO weekday name in the week, 0 for any other value
IsoIndex(day) ==
    IF day # None /\ \E k \in 1..7 : IsoDays[k] = day[1]
        THEN CHOOSE k \in 1..7 : IsoDays[k] = day[1]
    ELSE 0

\* the days of a payload block are ISO weekday names, in Monday-to-Sunday
\* order, none twice
IsoOrdered(days) ==
    /\ \A i \in 1..Len(days) : IsoIndex(days[i]) # 0
    /\ \A i, j \in 1..Len(days) :
           i < j => IsoIndex(days[i]) < IsoIndex(days[j])

\* C30: every day of a block of a saved payload is one of the seven ISO
\* weekday names, none twice and in Monday-to-Sunday order, for every rule
\* the parser produces, rules with unrecognized day values included.
C30_PayloadDaysAreIso ==
    (calc.fn = "submitForm" /\ calc.pc = "payload") =>
        /\ IsoOrdered(calc.payload[1].schedule.entry.days)
        /\ IsoOrdered(calc.payload[1].schedule.exit.days)

\* the part of C30 that holds: rules whose days are all weekday keys
C30_RecognizedDays ==
    (/\ calc.fn = "submitForm" /\ calc.pc = "payload"
     /\ \A i \in 1..Len(calc.rule[1].entrada.dias) :
            \E k \in 1..7 : DAYS[k] = calc.rule[1].entrada.dias[i]) =>
        /\ IsoOrdered(calc.payload[1].schedule.entry.days)
        /\ IsoOrdered(calc.payload[1].schedule.exit.days)

\* friday, Lun have been saved as monday, friday
C30_RecognizedReached ==
    /\ calc.fn = "submitForm" /\ calc.pc = "payload"
    /\ calc.rule[1].entrada.dias = <<"Vie", "Lun">>
    /\ calc.payload[1].schedule.entry.days = <<Some("monday"), Some("friday")>>

====
